---- MODULE Spec2Model ----
(***************************************************************************)
(* The schedule generator of generate.go: the source adapters             *)
(* (scrapeTeamSchedule, fetchGoogleSheetGames, fetchGoogleSheetNotes),     *)
(* the normalising helpers (parseDateForSorting, parseTimeToMinutes,       *)
(* strconv.Atoi on score cells) and generateHTML (scope filter, sort,      *)
(* week-start and past-game flags), driven by main.                        *)
(*                                                                         *)
(* Texts the code takes apart (times, scores, team names) are sequences of *)
(* one-character strings; texts it only compares for equality are plain    *)
(* strings.  A date text is a record that says which textual form it has   *)
(* and the numbers written in it (see the section on dates).               *)
(***************************************************************************)
EXTENDS Integers, Sequences, FiniteSets, TLC

VARIABLES
    pc,             \* main's position
    AllTeams,       \* the roster, a sequence of Team records (global AllTeams)
    allGames,       \* main's allGames
    allNotes,       \* main's allNotes
    teamIdx,        \* index of main's loops over AllTeams
    currentDate,    \* scrapeTeamSchedule's cross-row currentDate ("" as NoDate)
    cursor,         \* position in the input being read
    rowsRead,       \* rows consumed from the input being read
    lastRow,        \* the input row the last adapter step consumed
    lastEmitted,    \* TRUE iff that step appended a Game
    filterTeam,     \* generateHTML's filterTeam of the last render (0 = nil)
    now,            \* generateHTML's now of the last render
    scheduleItems,  \* generateHTML's scheduleItems after sort.Slice
    templateItems,  \* generateHTML's templateItems
    feed,           \* the last feed generateICalendar built, with its scope
    dirs,           \* the scopes whose directory os.MkdirAll made (0: distDir)
    files,          \* the output files: scope, format and what they hold
    calls,          \* the renderer calls main made, with their outcome
    sources,        \* the sources main fetched, with their outcome
    timeIn,         \* a time text given to formatTime
    timeOut,        \* what formatTime made of it
    AllLocations,   \* the location table (global AllLocations)
    locIn,          \* the location text of a row, and the adapter reading it
    gameLoc,        \* Location and CourtGymInfo of the Game made of the row
    locationHTML,   \* generateHTML's locationHTML for that Game
    stream,         \* what a csv.Reader has to give: lines, then how it ends
    iter            \* parity of the iterations of an adapter's row loop

vars == <<pc, AllTeams, allGames, allNotes, teamIdx, currentDate, cursor,
          rowsRead, lastRow, lastEmitted, filterTeam, now, scheduleItems,
          templateItems, feed, dirs, files, calls, sources, timeIn,
          timeOut, AllLocations, locIn, gameLoc, locationHTML, stream,
          iter>>

----------------------------------------------------------------------------
(* Bounds *)

\* rows read from one input (a scraped page, the games sheet, the notes sheet)
MaxRows == 2
\* rows read from one input when the inputs are the score rows
MaxScoreRows == 2
\* instants to the day
TicksPerDay == 2
MaxPageRows == 4
MaxEscapeLen == 3
MaxLines == 3

----------------------------------------------------------------------------
(* Text: sequences of one-character strings, ordered as Go orders bytes *)

Alphabet ==
    <<" ", "+", ",", "-", "/",
      "0", "1", "2", "3", "4", "5", "6", "7", "8", "9", ":",
      "A", "B", "C", "D", "E", "F", "G", "H", "I", "J", "K", "L", "M",
      "N", "O", "P", "Q", "R", "S", "T", "U", "V", "W", "X", "Y", "Z",
      "a", "b", "c", "d", "e", "f", "g", "h", "i", "j", "k", "l", "m",
      "n", "o", "p", "q", "r", "s", "t", "u", "v", "w", "x", "y", "z",
      "×">>

\* the place of every character in Alphabet
Codes ==
    [c \in {Alphabet[i] : i \in 1..Len(Alphabet)} |->
        CHOOSE i \in 1..Len(Alphabet) : Alphabet[i] = c]

Code(c) == Codes[c]

\* Go's s < t on strings: bytewise lexicographic
StrLess(s, t) ==
    \E k \in 0..Len(s) :
        /\ k <= Len(t)
        /\ \A i \in 1..k : s[i] = t[i]
        /\ \/ k = Len(s) /\ k < Len(t)
           \/ k < Len(s) /\ k < Len(t) /\ Code(s[k+1]) < Code(t[k+1])

IsDigit(c) == c \in {"0", "1", "2", "3", "4", "5", "6", "7", "8", "9"}

DigitVal(c) == Code(c) - Code("0")

RECURSIVE DecVal(_)
DecVal(s) ==
    IF s = <<>> THEN 0
    ELSE DecVal(SubSeq(s, 1, Len(s) - 1)) * 10 + DigitVal(s[Len(s)])

\* fmt's %d of a natural number
RECURSIVE Dec(_)
Dec(n) ==
    IF n < 10 THEN <<Alphabet[Code("0") + n]>>
    ELSE Dec(n \div 10) \o <<Alphabet[Code("0") + (n % 10)]>>

\* strings.TrimSpace
RECURSIVE TrimLeft(_)
TrimLeft(s) ==
    IF s # <<>> /\ s[1] = " " THEN TrimLeft(Tail(s)) ELSE s

RECURSIVE TrimRight(_)
TrimRight(s) ==
    IF s # <<>> /\ s[Len(s)] = " " THEN TrimRight(SubSeq(s, 1, Len(s) - 1))
    ELSE s

TrimSpace(s) == TrimRight(TrimLeft(s))

\* strings.Split(s, sep) for a one-character sep
RECURSIVE Split(_, _)
Split(s, sep) ==
    IF \E i \in 1..Len(s) : s[i] = sep
    THEN LET i == CHOOSE j \in 1..Len(s) :
                      s[j] = sep /\ \A k \in 1..(j-1) : s[k] # sep
         IN  <<SubSeq(s, 1, i - 1)>> \o Split(SubSeq(s, i + 1, Len(s)), sep)
    ELSE <<s>>

\* strconv.Atoi: an optional sign and one or more digits; err otherwise, and
\* then the value returned is 0
AtoiBody(s) == IF s # <<>> /\ s[1] \in {"+", "-"} THEN Tail(s) ELSE s

AtoiOk(s) ==
    /\ AtoiBody(s) # <<>>
    /\ \A i \in 1..Len(AtoiBody(s)) : IsDigit(AtoiBody(s)[i])

Atoi(s) ==
    IF ~AtoiOk(s) THEN 0
    ELSE IF s[1] = "-" THEN 0 - DecVal(AtoiBody(s))
    ELSE DecVal(AtoiBody(s))

\* the end of the run of characters of class C that starts at i (i-1 if none)
RECURSIVE RunEnd(_, _, _)
RunEnd(s, i, C) ==
    IF i <= Len(s) /\ s[i] \in C THEN RunEnd(s, i + 1, C) ELSE i - 1

DigitSet == {"0", "1", "2", "3", "4", "5", "6", "7", "8", "9"}

----------------------------------------------------------------------------
(* Time-of-day texts *)

TBD == <<"T", "B", "D">>

\* regexp (\d+):(\d+)\s*(AM|PM) anchored at position i: the three groups, or
\* ok = FALSE.  The character classes of consecutive parts are disjoint, so
\* the greedy runs are the only way to match.
TimeMatchAt(s, i) ==
    LET he == RunEnd(s, i, DigitSet)
        me == RunEnd(s, he + 2, DigitSet)
        se == RunEnd(s, me + 1, {" "})
    IN  IF /\ he >= i
           /\ he + 1 <= Len(s) /\ s[he + 1] = ":"
           /\ me >= he + 2
           /\ se + 2 <= Len(s)
           /\ s[se + 1] \in {"A", "P"}
           /\ s[se + 2] = "M"
        THEN [ok |-> TRUE, hours |-> SubSeq(s, i, he),
              minutes |-> SubSeq(s, he + 2, me), ampm |-> s[se + 1]]
        ELSE [ok |-> FALSE, hours |-> <<>>, minutes |-> <<>>, ampm |-> ""]

\* re.FindStringSubmatch: the leftmost match
FindTimeMatch(s) ==
    IF \E i \in 1..Len(s) : TimeMatchAt(s, i).ok
    THEN TimeMatchAt(s, CHOOSE i \in 1..Len(s) :
                            /\ TimeMatchAt(s, i).ok
                            /\ \A j \in 1..(i-1) : ~TimeMatchAt(s, j).ok)
    ELSE [ok |-> FALSE, hours |-> <<>>, minutes |-> <<>>, ampm |-> ""]

UnparsedMinutes == 9999

parseTimeToMinutes(timeStr) ==
    LET match == FindTimeMatch(timeStr)
        h == Atoi(match.hours)
        hours == IF match.ampm = "P" /\ h # 12 THEN h + 12
                 ELSE IF match.ampm = "A" /\ h = 12 THEN 0
                 ELSE h
    IN  IF match.ok THEN hours * 60 + Atoi(match.minutes)
        ELSE UnparsedMinutes

\* formatTime leaving out the minutes whenever they begin with 0
formatTimeOnTheHour(t) ==
    LET match == FindTimeMatch(t)
        ampm == <<match.ampm, "M">>
    IN  IF t = <<>> \/ t = TBD THEN t
        ELSE IF match.ok
        THEN IF match.minutes[1] = "0" THEN match.hours \o ampm
             ELSE match.hours \o <<":">> \o match.minutes \o ampm
        ELSE t

\* formatTime; strings.ToUpper leaves the matched AM or PM as it is
formatTime(t) ==
    LET match == FindTimeMatch(t)
        ampm == <<match.ampm, "M">>
    IN  IF t = <<>> \/ t = TBD THEN t
        ELSE IF match.ok
        THEN IF match.minutes = <<"0", "0">> THEN match.hours \o ampm
             ELSE match.hours \o <<":">> \o match.minutes \o ampm
        ELSE t

\* regexp ^(Mon|Tue|Wed|Thu|Fri|Sat|Sun)\s+\d+/\d+/\d+\s+ replaced by ""
DayAbbrevs ==
    { <<"M","o","n">>, <<"T","u","e">>, <<"W","e","d">>, <<"T","h","u">>,
      <<"F","r","i">>, <<"S","a","t">>, <<"S","u","n">> }

StripDatePrefix(s) ==
    LET s1 == RunEnd(s, 4, {" "})
        d1 == RunEnd(s, s1 + 1, DigitSet)
        d2 == RunEnd(s, d1 + 2, DigitSet)
        d3 == RunEnd(s, d2 + 2, DigitSet)
        s2 == RunEnd(s, d3 + 1, {" "})
    IN  IF /\ Len(s) >= 3 /\ SubSeq(s, 1, 3) \in DayAbbrevs
           /\ s1 >= 4
           /\ d1 >= s1 + 1 /\ d1 + 1 <= Len(s) /\ s[d1 + 1] = "/"
           /\ d2 >= d1 + 2 /\ d2 + 1 <= Len(s) /\ s[d2 + 1] = "/"
           /\ d3 >= d2 + 2
           /\ s2 >= d3 + 1
        THEN SubSeq(s, s2 + 1, Len(s))
        ELSE s

\* regexp \d+:\d+ matches somewhere in s
HasClockTime(s) ==
    \E i \in 1..Len(s) :
        /\ i + 2 <= Len(s)
        /\ IsDigit(s[i]) /\ s[i + 1] = ":" /\ IsDigit(s[i + 2])

----------------------------------------------------------------------------
(* Dates.  A time.Time at midnight UTC is the number of days since         *)
(* January 1 of year 1 (a Monday) of the proleptic Gregorian calendar.     *)

IsLeap(y) == (y % 4 = 0 /\ y % 100 # 0) \/ y % 400 = 0

DaysIn(m, y) ==
    IF m = 2 THEN (IF IsLeap(y) THEN 29 ELSE 28)
    ELSE IF m \in {4, 6, 9, 11} THEN 30 ELSE 31

DaysBeforeYear(y) ==
    365 * (y - 1) + ((y - 1) \div 4) - ((y - 1) \div 100) + ((y - 1) \div 400)

RECURSIVE DaysBeforeMonth(_, _)
DaysBeforeMonth(m, y) ==
    IF m = 1 THEN 0 ELSE DaysBeforeMonth(m - 1, y) + DaysIn(m - 1, y)

\* time.Date(y, m, d, 0, 0, 0, 0, time.UTC)
Date(y, m, d) == DaysBeforeYear(y) + DaysBeforeMonth(m, y) + (d - 1)

\* Time.Year
Year(t) ==
    CHOOSE y \in ((t \div 366) + 1)..((t \div 365) + 1) :
        DaysBeforeYear(y) <= t /\ t < DaysBeforeYear(y + 1)

\* Time.YearDay, from 1
YearDay(t) == t - DaysBeforeYear(Year(t)) + 1

\* Time.Weekday, 0 = Monday .. 6 = Sunday
Weekday(t) == t % 7

\* Time.ISOWeek: the year and week of the Thursday of t's Monday-based week
ISOWeek(t) ==
    LET thursday == t + (3 - Weekday(t))
        year == Year(thursday)
    IN  <<year, ((thursday - DaysBeforeYear(year)) \div 7) + 1>>

\* Time.Month and Time.Day
Month(t) ==
    LET year == Year(t)
        yday == t - DaysBeforeYear(year) + 1
    IN  CHOOSE m \in 1..12 :
            /\ DaysBeforeMonth(m, year) < yday
            /\ yday <= DaysBeforeMonth(m, year) + DaysIn(m, year)

Day(t) ==
    LET year == Year(t)
    IN  t - DaysBeforeYear(year) + 1 - DaysBeforeMonth(Month(t), year)

(* A date text says which textual form it has and the numbers written in   *)
(* it: "long" is "Saturday, October 18, 2025" (weekday name wd, month name *)
(* m, day d without padding, four-digit year y); "num4" is "10/18/2025";   *)
(* "num2" is "10/18/25" (y is the two digits); "other" is any text that    *)
(* has none of these forms, kept in text.  The numbers need not name a day *)
(* of the calendar ("Saturday, February 30, 2025").                        *)
DateText(form, wd, y, m, d, text) ==
    [form |-> form, wd |-> wd, y |-> y, m |-> m, d |-> d, text |-> text]

LongDate(wd, y, m, d) == DateText("long", wd, y, m, d, "")
Num4Date(m, d, y) == DateText("num4", 0, y, m, d, "")
Num2Date(m, d, yy) == DateText("num2", 0, yy, m, d, "")
OtherDate(text) == DateText("other", 0, 0, 0, 0, text)
NoDate == OtherDate("")

ValidDay(y, m, d) == m \in 1..12 /\ d \in 1..DaysIn(m, y)

\* time.Parse(layout, value): err # nil as ok = FALSE.  The weekday name is
\* read and not checked against the date; a "02" or "01" of the layout needs
\* two digits, a "2" or "1" takes one or two; "06" takes two digits and
\* means 19yy from 69 on and 20yy below.
timeParse(layout, value) ==
    LET yy == IF value.y >= 69 THEN 1900 + value.y ELSE 2000 + value.y
        fail == [ok |-> FALSE, t |-> 0]
        at(y) == IF ValidDay(y, value.m, value.d)
                 THEN [ok |-> TRUE, t |-> Date(y, value.m, value.d)]
                 ELSE fail
    IN  CASE layout = "Monday, January 2, 2006" ->
                IF value.form = "long" THEN at(value.y) ELSE fail
          [] layout = "Monday, January 02, 2006" ->
                IF value.form = "long" /\ value.d >= 10 THEN at(value.y)
                ELSE fail
          [] layout = "1/2/2006" ->
                IF value.form = "num4" THEN at(value.y) ELSE fail
          [] layout = "01/02/2006" ->
                IF value.form = "num4" /\ value.m >= 10 /\ value.d >= 10
                THEN at(value.y) ELSE fail
          [] layout = "1/2/06" ->
                IF value.form = "num2" THEN at(yy) ELSE fail

\* Time.Format("Monday, January 2, 2006")
FormatLong(t) == LongDate(Weekday(t), Year(t), Month(t), Day(t))

SentinelDate == Date(2099, 12, 31)

SortLayouts ==
    <<"Monday, January 2, 2006", "Monday, January 02, 2006",
      "1/2/2006", "01/02/2006", "1/2/06">>

\* the first layout of layouts, from the i-th on, that parses value
RECURSIVE firstParse(_, _, _)
firstParse(layouts, i, value) ==
    IF i > Len(layouts) THEN [ok |-> FALSE, t |-> 0]
    ELSE LET r == timeParse(layouts[i], value)
         IN  IF r.ok THEN r ELSE firstParse(layouts, i + 1, value)

parseDateForSorting(dateStr) ==
    LET r == firstParse(SortLayouts, 1, dateStr)
    IN  IF r.ok THEN r.t ELSE SentinelDate

\* the adapters' "Parse date to standard format"
SheetLayouts == <<"1/2/2006", "01/02/2006", "1/2/06">>

formattedDate(date) ==
    LET r == firstParse(SheetLayouts, 1, date)
    IN  IF r.ok THEN FormatLong(r.t) ELSE date

\* regexp \w+day,\s+\w+\s+\d+,\s+\d{4} matches the header text: the long form
\* is the one that has a word ending in "day,", a word, a number, a comma
\* and four digits
HeaderMatches(headerText) == headerText.form = "long"

----------------------------------------------------------------------------
(* More text *)

\* strings.ToLower on the letters of Alphabet
ToLower(s) ==
    [i \in 1..Len(s) |->
        IF Code(s[i]) >= Code("A") /\ Code(s[i]) <= Code("Z")
        THEN Alphabet[Code(s[i]) + 26] ELSE s[i]]

\* strings.Contains
Contains(s, sub) ==
    \E i \in 0..(Len(s) - Len(sub)) : SubSeq(s, i + 1, i + Len(sub)) = sub

----------------------------------------------------------------------------
(* Records *)

Team(name, slug, order, link, cblName) ==
    [Name |-> name, Slug |-> slug, Order |-> order, CBLLink1 |-> link,
     CBLName |-> cblName]

\* Game.Team is a pointer into AllTeams: the index, 0 for nil
Game(team, date, time, opponent, homeAway, score, result) ==
    [Team |-> team, Date |-> date, Time |-> time, Opponent |-> opponent,
     HomeAway |-> homeAway, Score |-> score, Result |-> result]

Note(date, text, teams) == [Date |-> date, Text |-> text, Teams |-> teams]

W == <<"W">>
L == <<"L">>
NoResult == <<>>

----------------------------------------------------------------------------
(* fetchTeams: the rows of the teams sheet, in order *)

TeamRow(name, slug, link, cblName) ==
    [Name |-> name, Slug |-> slug, CBLLink1 |-> link, CBLName |-> cblName]

RECURSIVE fetchTeams(_)
fetchTeams(rows) ==
    IF rows = <<>> THEN <<>>
    ELSE LET teams == fetchTeams(SubSeq(rows, 1, Len(rows) - 1))
             r == rows[Len(rows)]
         IN  IF r.Name = <<>> THEN teams
             ELSE Append(teams, Team(r.Name, r.Slug, Len(teams) + 1,
                                     r.CBLLink1, r.CBLName))

findTeamByName(teams, teamName) ==
    IF \E i \in 1..Len(teams) : teams[i].Name = teamName
    THEN CHOOSE i \in 1..Len(teams) :
             /\ teams[i].Name = teamName
             /\ \A j \in 1..(i-1) : teams[j].Name # teamName
    ELSE 0

----------------------------------------------------------------------------
(* scrapeTeamSchedule: the callback run on each table row *)

\* a row that has th cells, with the row's text
HeaderRow(text) ==
    [th |-> TRUE, text |-> text, tds |-> 0, gameNum |-> "", time |-> <<>>,
     visitor |-> "", visitorScore |-> <<>>, homeScore |-> <<>>, home |-> ""]

\* a row of n td cells; the cells named are those of an 8-cell row
DataRow(n, gameNum, time, visitor, visitorScore, homeScore, home) ==
    [th |-> FALSE, text |-> NoDate, tds |-> n, gameNum |-> gameNum,
     time |-> time, visitor |-> visitor, visitorScore |-> visitorScore,
     homeScore |-> homeScore, home |-> home]

Unplayed == <<"×">>

\* ScoresPresent without the test for the placeholder
ScoresPresentAnyText(visitorScore, homeScore) ==
    visitorScore # <<>> /\ homeScore # <<>>

\* both score cells hold something other than the placeholder
ScoresPresent(visitorScore, homeScore) ==
    /\ visitorScore # Unplayed /\ homeScore # Unplayed
    /\ visitorScore # <<>> /\ homeScore # <<>>

\* scrapeResult comparing the cells' texts, not their numbers
scrapeResultByText(ourCell, theirCell) ==
    IF StrLess(theirCell, ourCell) THEN W ELSE L

\* ourScore > theirScore decides the tag; Atoi's error is dropped
scrapeResult(ourCell, theirCell) ==
    IF Atoi(ourCell) > Atoi(theirCell) THEN W ELSE L

\* fmt.Sprintf("%s %s-%s", result, ours, theirs)
scoreText(result, ours, theirs) == result \o <<" ">> \o ours \o <<"-">> \o theirs

\* currentDateAfter taking the text of every header row
currentDateAfterAnyHeader(row, cur) ==
    IF row.th THEN row.text ELSE cur

currentDateAfter(row, cur) ==
    IF row.th /\ HeaderMatches(row.text) THEN row.text ELSE cur

\* scrapeRowGames testing the home cell before the visitor cell
scrapeRowGamesHomeFirst(teams, displayName, htmlName, row, cur) ==
    LET date == currentDateAfter(row, cur)
        timeStr == StripDatePrefix(TrimSpace(row.time))
        vs == TrimSpace(row.visitorScore)
        hs == TrimSpace(row.homeScore)
        played == ScoresPresent(vs, hs)
        team == findTeamByName(teams, displayName)
    IN  IF ~(row.tds = 8 /\ date # NoDate) THEN <<>>
        ELSE IF ~HasClockTime(timeStr) \/ row.gameNum = "" THEN <<>>
        ELSE IF row.home = htmlName THEN
            LET result == IF played THEN scrapeResult(hs, vs) ELSE NoResult
                score == IF played THEN scoreText(result, hs, vs) ELSE <<>>
            IN  <<Game(team, date, timeStr, row.visitor, "Home", score, result)>>
        ELSE IF row.visitor = htmlName THEN
            LET result == IF played THEN scrapeResult(vs, hs) ELSE NoResult
                score == IF played THEN scoreText(result, vs, hs) ELSE <<>>
            IN  <<Game(team, date, timeStr, row.home, "Away", score, result)>>
        ELSE <<>>

\* the Games the callback appends for the row (none or one), for the team
\* displayName whose label in the table is htmlName
scrapeRowGames(teams, displayName, htmlName, row, cur) ==
    LET date == currentDateAfter(row, cur)
        timeStr == StripDatePrefix(TrimSpace(row.time))
        vs == TrimSpace(row.visitorScore)
        hs == TrimSpace(row.homeScore)
        played == ScoresPresent(vs, hs)
        team == findTeamByName(teams, displayName)
    IN  IF ~(row.tds = 8 /\ date # NoDate) THEN <<>>
        ELSE IF ~HasClockTime(timeStr) \/ row.gameNum = "" THEN <<>>
        ELSE IF row.visitor = htmlName THEN
            LET result == IF played THEN scrapeResult(vs, hs) ELSE NoResult
                score == IF played THEN scoreText(result, vs, hs) ELSE <<>>
            IN  <<Game(team, date, timeStr, row.home, "Away", score, result)>>
        ELSE IF row.home = htmlName THEN
            LET result == IF played THEN scrapeResult(hs, vs) ELSE NoResult
                score == IF played THEN scoreText(result, hs, vs) ELSE <<>>
            IN  <<Game(team, date, timeStr, row.visitor, "Home", score, result)>>
        ELSE <<>>

----------------------------------------------------------------------------
(* fetchGoogleSheetGames: the loop body run on each record *)

SheetRow(team, date, time, jersey, opponent, score) ==
    [Team |-> team, Date |-> date, Time |-> time, Jersey |-> jersey,
     Opponent |-> opponent, Score |-> score]

homeAwayOf(jersey) ==
    LET jerseyLower == ToLower(jersey)
    IN  IF \/ Contains(jerseyLower, <<"h","o","m","e">>)
           \/ Contains(jerseyLower, <<"l","i","g","h","t">>)
        THEN "Home"
        ELSE IF \/ Contains(jerseyLower, <<"a","w","a","y">>)
                \/ Contains(jerseyLower, <<"d","a","r","k">>)
        THEN "Away"
        ELSE ""

\* "Parse score and add W/L if score is in format ourScore-theirScore"
sheetTag(ourScore, theirScore) == IF ourScore > theirScore THEN W ELSE L

sheetResult(score) ==
    LET scoreParts == Split(score, "-")
    IN  IF score # <<>> /\ score # <<"-">> /\ Len(scoreParts) = 2
           /\ AtoiOk(TrimSpace(scoreParts[1]))
           /\ AtoiOk(TrimSpace(scoreParts[2]))
        THEN sheetTag(Atoi(TrimSpace(scoreParts[1])),
                      Atoi(TrimSpace(scoreParts[2])))
        ELSE NoResult

\* the Games the loop body appends for the record (none or one); every
\* cell is read through getCellValue, which trims it
sheetRowGames(teams, record) ==
    LET team == findTeamByName(teams, TrimSpace(record.Team))
        timeStr == IF TrimSpace(record.Time) = <<>> THEN TBD
                   ELSE TrimSpace(record.Time)
        score == TrimSpace(record.Score)
    IN  IF team = 0 \/ record.Date = NoDate \/ record.Opponent = "" THEN <<>>
        ELSE <<Game(team, formattedDate(record.Date), timeStr,
                    record.Opponent, homeAwayOf(record.Jersey), score,
                    sheetResult(score))>>

----------------------------------------------------------------------------
(* fetchGoogleSheetNotes: the loop body run on each record *)

NoteRow(date, text, teams) == [Date |-> date, Text |-> text, Teams |-> teams]

sheetRowNotes(record) ==
    IF record.Date = NoDate \/ record.Text = <<>> THEN <<>>
    ELSE <<Note(formattedDate(record.Date), record.Text,
                TrimSpace(record.Teams))>>

----------------------------------------------------------------------------
(* generateHTML.  filterTeam is an index into the roster, 0 for nil.  A    *)
(* ScheduleItem holds a pointer into gamesToDisplay or notesToDisplay: the *)
(* index idx.                                                              *)

gamesToDisplay(games, teams, ft) ==
    LET sameSlug(game) == teams[game.Team].Slug = teams[ft].Slug
    IN  IF ft # 0 THEN SelectSeq(games, sameSlug) ELSE games

notesToDisplay(notes, teams, ft) ==
    LET shown(note) ==
            \/ ToLower(note.Teams) = <<"a","l","l"," ","t","e","a","m","s">>
            \/ Contains(ToLower(note.Teams), ToLower(teams[ft].Name))
    IN  IF ft # 0 THEN SelectSeq(notes, shown) ELSE notes

Item(isNote, idx) == [IsNote |-> isNote, idx |-> idx]

\* scheduleItems before the sort: the games, then the notes
itemsToSort(G, N) ==
    [i \in 1..(Len(G) + Len(N)) |->
        IF i <= Len(G) THEN Item(FALSE, i) ELSE Item(TRUE, i - Len(G))]

itemDate(G, N, it) ==
    IF it.IsNote THEN parseDateForSorting(N[it.idx].Date)
    ELSE parseDateForSorting(G[it.idx].Date)

isTBD(time) == time = TBD \/ time = <<>>

\* "sort by team order", then by team name
teamLess(teams, gameA, gameB) ==
    IF teams[gameA.Team].Order # teams[gameB.Team].Order
    THEN teams[gameA.Team].Order < teams[gameB.Team].Order
    ELSE StrLess(teams[gameA.Team].Name, teams[gameB.Team].Name)

\* gameLess with the later time first
gameLessLatestFirst(teams, gameA, gameB) ==
    LET isTBDA == isTBD(gameA.Time)
        isTBDB == isTBD(gameB.Time)
        timeMinA == parseTimeToMinutes(gameA.Time)
        timeMinB == parseTimeToMinutes(gameB.Time)
    IN  IF ~isTBDA /\ ~isTBDB
        THEN IF timeMinA # timeMinB THEN timeMinA > timeMinB
             ELSE teamLess(teams, gameA, gameB)
        ELSE IF isTBDA /\ isTBDB THEN teamLess(teams, gameA, gameB)
        ELSE ~isTBDA

\* gameLess with the TBD game before the timed one
gameLessTBDFirst(teams, gameA, gameB) ==
    LET isTBDA == isTBD(gameA.Time)
        isTBDB == isTBD(gameB.Time)
        timeMinA == parseTimeToMinutes(gameA.Time)
        timeMinB == parseTimeToMinutes(gameB.Time)
    IN  IF ~isTBDA /\ ~isTBDB
        THEN IF timeMinA # timeMinB THEN timeMinA < timeMinB
             ELSE teamLess(teams, gameA, gameB)
        ELSE IF isTBDA /\ isTBDB THEN teamLess(teams, gameA, gameB)
        ELSE isTBDA

\* "Both are games - sort by time then team"
gameLess(teams, gameA, gameB) ==
    LET isTBDA == isTBD(gameA.Time)
        isTBDB == isTBD(gameB.Time)
        timeMinA == parseTimeToMinutes(gameA.Time)
        timeMinB == parseTimeToMinutes(gameB.Time)
    IN  IF ~isTBDA /\ ~isTBDB
        THEN IF timeMinA # timeMinB THEN timeMinA < timeMinB
             ELSE teamLess(teams, gameA, gameB)
        ELSE IF isTBDA /\ isTBDB THEN teamLess(teams, gameA, gameB)
        ELSE ~isTBDA

\* less with the Games of a date before its Notes
lessGamesFirst(G, N, teams, a, b) ==
    LET dateA == itemDate(G, N, a)
        dateB == itemDate(G, N, b)
    IN  IF dateA # dateB THEN dateA < dateB
        ELSE IF a.IsNote /\ ~b.IsNote THEN FALSE
        ELSE IF ~a.IsNote /\ b.IsNote THEN TRUE
        ELSE IF a.IsNote /\ b.IsNote THEN FALSE
        ELSE G[a.idx].Team < G[b.idx].Team

\* the less function given to sort.Slice, on the items a and b
less(G, N, teams, a, b) ==
    LET dateA == itemDate(G, N, a)
        dateB == itemDate(G, N, b)
    IN  IF dateA # dateB THEN dateA < dateB
        ELSE IF a.IsNote /\ ~b.IsNote THEN TRUE
        ELSE IF ~a.IsNote /\ b.IsNote THEN FALSE
        ELSE IF a.IsNote /\ b.IsNote THEN FALSE
        ELSE gameLess(teams, G[a.idx], G[b.idx])

\* s with x put in at position p
InsertAt(s, p, x) == SubSeq(s, 1, p - 1) \o <<x>> \o SubSeq(s, p, Len(s))

(* sort.Slice is not stable ("The sort is not guaranteed to be stable",    *)
(* package sort; its pdqsort moves equal elements past each other once a   *)
(* slice is longer than 12): it returns some arrangement of the items in   *)
(* which no item is less than an item before it, and which one it is among *)
(* items neither of which is less than the other is not determined.        *)
(* sortSlice is the set of these arrangements of the first k items.        *)
RECURSIVE sortSlice(_, _, _, _, _)
sortSlice(items, k, G, N, teams) ==
    IF k = 0 THEN {<<>>}
    ELSE LET x == items[k]
             places(s) ==
                 LET below == [i \in 1..Len(s) |-> less(G, N, teams, x, s[i])]
                     above == [i \in 1..Len(s) |-> less(G, N, teams, s[i], x)]
                 IN  { q \in 1..(Len(s) + 1) :
                         /\ \A i \in 1..(q-1) : ~below[i]
                         /\ \A i \in q..Len(s) : ~above[i] }
         IN  UNION { { InsertAt(s, p, x) : p \in places(s) } :
                     s \in sortSlice(items, k - 1, G, N, teams) }

\* "Determine if this is the first game of a new calendar week"; dateOf[k]
\* is parseDateForSorting of the date of the k-th game of gamesToDisplay
isWeekStart(dateOf, sorted, i) ==
    LET currentDay == dateOf[sorted[i].idx]
        prevGames == { j \in 1..(i-1) : ~sorted[j].IsNote }
        prev == CHOOSE j \in prevGames : \A k \in prevGames : k <= j
    IN  IF Year(currentDay) = 2099 THEN FALSE
        ELSE IF i = 1 THEN TRUE
        ELSE IF prevGames = {} THEN FALSE
        ELSE ISOWeek(currentDay) # ISOWeek(dateOf[sorted[prev].idx])

\* an instant is a number of ticks, TicksPerDay to the day; a date is the
\* instant of its midnight
Midnight(t) == t * TicksPerDay

\* IsPastGame with "not after" for "before"
IsPastGameInclusive(g, gameDate, nowInstant) ==
    LET yesterday == nowInstant - TicksPerDay
    IN  \/ g.Result # NoResult
        \/ Year(gameDate) # 2099 /\ Midnight(gameDate) <= yesterday

\* Game.IsPastGame, with yesterday = now.AddDate(0, 0, -1)
IsPastGame(g, gameDate, nowInstant) ==
    LET yesterday == nowInstant - TicksPerDay
    IN  \/ g.Result # NoResult
        \/ Year(gameDate) # 2099 /\ Midnight(gameDate) < yesterday

\* score := game.Score; if score == "-" { score = "" }
ScoreDisplay(g) == IF g.Score = <<"-">> THEN <<>> ELSE g.Score

\* the text of the score cell the page template writes for a Game: the
\* score display "-" stands for a Game without a score
scoreCell(scoreDisplay) ==
    IF scoreDisplay = <<>> THEN <<"-">> ELSE scoreDisplay

TemplateItem(isNote, idx, weekStart, past, score) ==
    [IsNote |-> isNote, idx |-> idx, IsWeekStart |-> weekStart,
     IsPastGame |-> past, ScoreDisplay |-> score]

\* templateItems, from the sorted scheduleItems
templateItemsOf(G, sorted, nowInstant) ==
    LET dateOf == [k \in 1..Len(G) |-> parseDateForSorting(G[k].Date)]
    IN  [i \in 1..Len(sorted) |->
            IF sorted[i].IsNote
            THEN TemplateItem(TRUE, sorted[i].idx, FALSE, FALSE, <<>>)
            ELSE TemplateItem(FALSE, sorted[i].idx,
                     isWeekStart(dateOf, sorted, i),
                     IsPastGame(G[sorted[i].idx], dateOf[sorted[i].idx],
                                nowInstant),
                     ScoreDisplay(G[sorted[i].idx]))]

----------------------------------------------------------------------------
(* generateICalendar *)

\* strings.ReplaceAll(s, " ", "")
RemoveSpaces(s) == SelectSeq(s, LAMBDA c : c # " ")

\* the bytes of the characters of Alphabet
Bytes ==
    <<32, 43, 44, 45, 47>> \o [k \in 1..11 |-> 47 + k]
    \o [k \in 1..26 |-> 64 + k] \o [k \in 1..26 |-> 96 + k]

HexDigits ==
    <<"0", "1", "2", "3", "4", "5", "6", "7", "8", "9",
      "a", "b", "c", "d", "e", "f">>

\* fmt.Sprintf("%x", s): two hexadecimal digits for every byte
RECURSIVE Hex(_)
Hex(s) ==
    IF s = <<>> THEN <<>>
    ELSE LET c == s[1]
             b == Bytes[Code(c)]
         IN  (IF c = "×" THEN <<"c", "3", "9", "7">>
              ELSE <<HexDigits[(b \div 16) + 1], HexDigits[(b % 16) + 1]>>)
             \o Hex(Tail(s))

\* a number in n digits, with leading zeros
RECURSIVE Pad(_, _)
Pad(n, v) == IF n = 0 THEN <<>> ELSE Pad(n - 1, v \div 10) \o Dec(v % 10)

\* Time.Format("20060102")
FormatYMD(t) == Pad(4, Year(t)) \o Pad(2, Month(t)) \o Pad(2, Day(t))

UIDSuffix ==
    <<"@","l","i","g","h","t","n","i","n","g","s","c","h","e","d","u","l","e",
      ".","l","o","c","a","l">>

\* fmt.Sprintf("game-%s-%s-%s@lightningschedule.local", ...)
gameUID(teamName, dateObj, time) ==
    <<"g","a","m","e","-">> \o RemoveSpaces(teamName) \o <<"-">>
    \o FormatYMD(dateObj) \o <<"-">> \o RemoveSpaces(time) \o UIDSuffix

\* fmt.Sprintf("note-%s-%s@lightningschedule.local", ...)
noteUID(dateObj, text) ==
    <<"n","o","t","e","-">> \o FormatYMD(dateObj) \o <<"-">>
    \o Hex(RemoveSpaces(text)) \o UIDSuffix

\* the value of X-WR-CALNAME
calName(teams, ft) ==
    <<"L","i","g","h","t","n","i","n","g"," ",
      "S","c","h","e","d","u","l","e">>
    \o (IF ft # 0 THEN <<" ", "-", " ">> \o teams[ft].Name ELSE <<>>)

\* strings.ReplaceAll(s, c, r) for a one-character c
RECURSIVE ReplaceChar(_, _, _)
ReplaceChar(s, c, r) ==
    IF s = <<>> THEN <<>>
    ELSE (IF s[1] = c THEN r ELSE <<s[1]>>) \o ReplaceChar(Tail(s), c, r)

escapeICalText(text) ==
    LET t1 == ReplaceChar(text, "\\", <<"\\", "\\">>)
        t2 == ReplaceChar(t1, ",", <<"\\", ",">>)
        t3 == ReplaceChar(t2, ";", <<"\\", ";">>)
        t4 == ReplaceChar(t3, "\n", <<"\\", "n">>)
    IN  ReplaceChar(t4, "\r", <<>>)

MinutesPerDay == 1440

\* a VEVENT: an all-day event has the dates Start and End (DTSTART;VALUE=DATE),
\* a timed one the minutes Start and End of local time in America/Chicago
Event(kind, idx, uid, allDay, start, end) ==
    [kind |-> kind, idx |-> idx, UID |-> uid, AllDay |-> allDay,
     Start |-> start, End |-> end]

\* gameEvent without the fall back to an all-day event
gameEventNoFallback(teams, g, idx) ==
    LET dateObj == parseDateForSorting(g.Date)
        match == FindTimeMatch(g.Time)
        h == Atoi(match.hours)
        hours == IF match.ampm = "P" /\ h # 12 THEN h + 12
                 ELSE IF match.ampm = "A" /\ h = 12 THEN 0
                 ELSE h
        startTime == dateObj * MinutesPerDay + hours * 60 + Atoi(match.minutes)
        uid == gameUID(teams[g.Team].Name, dateObj, g.Time)
    IN  IF isTBD(g.Time)
        THEN Event("game", idx, uid, TRUE, dateObj, dateObj + 1)
        ELSE Event("game", idx, uid, FALSE, startTime, startTime + 60)

\* the VEVENT of the game g, the idx-th of gamesToExport
gameEvent(teams, g, idx) ==
    LET dateObj == parseDateForSorting(g.Date)
        match == FindTimeMatch(g.Time)
        h == Atoi(match.hours)
        hours == IF match.ampm = "P" /\ h # 12 THEN h + 12
                 ELSE IF match.ampm = "A" /\ h = 12 THEN 0
                 ELSE h
        allDay == isTBD(g.Time) \/ ~match.ok
        startTime == dateObj * MinutesPerDay + hours * 60 + Atoi(match.minutes)
        uid == gameUID(teams[g.Team].Name, dateObj, g.Time)
    IN  IF allDay THEN Event("game", idx, uid, TRUE, dateObj, dateObj + 1)
        ELSE Event("game", idx, uid, FALSE, startTime, startTime + 60)

\* the VEVENT of the note n, the idx-th of notesToExport
noteEvent(n, idx) ==
    LET dateObj == parseDateForSorting(n.Date)
    IN  Event("note", idx, noteUID(dateObj, n.Text), TRUE, dateObj, dateObj + 1)

\* the VEVENTs of the feed, in the order they are written: the games, then
\* the notes, without those whose sort date is in the year 2099
RECURSIVE gameEvents(_, _, _)
gameEvents(teams, G, k) ==
    IF k = 0 THEN <<>>
    ELSE gameEvents(teams, G, k - 1)
         \o (IF Year(parseDateForSorting(G[k].Date)) = 2099 THEN <<>>
             ELSE <<gameEvent(teams, G[k], k)>>)

RECURSIVE noteEvents(_, _)
noteEvents(N, k) ==
    IF k = 0 THEN <<>>
    ELSE noteEvents(N, k - 1)
         \o (IF Year(parseDateForSorting(N[k].Date)) = 2099 THEN <<>>
             ELSE <<noteEvent(N[k], k)>>)

icalEvents(games, notes, teams, ft) ==
    LET gamesToExport == gamesToDisplay(games, teams, ft)
        notesToExport == notesToDisplay(notes, teams, ft)
    IN  gameEvents(teams, gamesToExport, Len(gamesToExport))
        \o noteEvents(notesToExport, Len(notesToExport))

----------------------------------------------------------------------------
(* Inputs.  Each input the run reads is some rows of a list of rows, in    *)
(* the order of the list: the adapters' steps take the rows one by one.    *)

Blue == <<"1","2","U"," ","B","l","u","e">>
Red == <<"1","2","U"," ","R","e","d">>
BlueLabel == "Lightning 12U Blue"

SixPM == <<"6",":","0","0"," ","P","M">>
HalfTenAM == <<"1","0",":","3","0"," ","A","M">>
SatSixPM ==
    <<"S","a","t"," ","1","0","/","1","8","/","2","5"," ">> \o SixPM

\* the teams sheet: Blue has a results page, Red has none, and there is a
\* row without a name
TeamSheets ==
    { << TeamRow(Blue, "12u-blue", "https://cbl/blue", BlueLabel),
         TeamRow(<<>>, "", "", ""),
         TeamRow(Red, "12u-red", "", "") >> }

Saturday == LongDate(5, 2025, 10, 18)

\* rows of a scraped page: Blue at Eagles at 10:30 AM (not played), Hawks at
\* Blue at 6:00 PM (38 to 42)
Page ==
    << DataRow(8, "1", HalfTenAM, BlueLabel, Unplayed, Unplayed, "Eagles"),
       HeaderRow(Saturday),
       DataRow(8, "2", SatSixPM, "Hawks", <<"3","8">>, <<"4","2">>, BlueLabel),
       DataRow(8, "1", HalfTenAM, BlueLabel, Unplayed, Unplayed, "Eagles") >>

\* records of the games sheet, not in date order
GamesSheet ==
    << SheetRow(Red, Num4Date(1, 1, 2100), SixPM, <<>>, "Eagles", <<>>),
       SheetRow(Blue, OtherDate("TBA"), HalfTenAM, <<>>, "Eagles", <<>>),
       SheetRow(Blue, Num4Date(10, 20, 2025), TBD, <<"A","w","a","y">>,
                "Owls", <<>>),
       SheetRow(Blue, Num4Date(10, 19, 2025), HalfTenAM, <<>>, "Owls", <<>>),
       SheetRow(Red, Num2Date(10, 18, 25), <<>>, <<>>, "Owls", <<>>),
       SheetRow(Blue, Num4Date(10, 18, 2025), TBD, <<"d","a","r","k">>,
                "Owls", <<"-">>),
       SheetRow(Red, Num4Date(10, 18, 2025), SixPM, <<"L","i","g","h","t">>,
                "Hawks", <<"4","2","-","3","8">>),
       SheetRow(Blue, Num4Date(10, 18, 2025), SixPM, <<"H","o","m","e">>,
                "Hawks", <<"4","2","-","3","8">>) >>

PictureDay == <<"P","i","c","t","u","r","e"," ","d","a","y">>
BringSnacks == <<"B","r","i","n","g"," ","s","n","a","c","k","s">>
Banquet == <<"B","a","n","q","u","e","t">>

AllTeamsText == <<"A","l","l"," ","T","e","a","m","s">>

\* records of the notes sheet
NotesSheet ==
    << NoteRow(Num4Date(10, 18, 2025), PictureDay, AllTeamsText),
       NoteRow(Num4Date(10, 18, 2025), BringSnacks, Blue),
       NoteRow(OtherDate("TBA"), Banquet, AllTeamsText) >>

\* the instants time.Now() returns: the ticks of Sunday, October 19, 2025
Nows == { Midnight(Date(2025, 10, 19)) + k : k \in 0..(TicksPerDay - 1) }

----------------------------------------------------------------------------
(* main *)

NoRow == [kind |-> "none"]

\* no feed built yet
NoFeed == [filterTeam |-> -1, name |-> <<>>, events |-> <<>>]

\* an output file of a scope, holding a complete or a partial render
File(scope, format, content) ==
    [scope |-> scope, format |-> format, content |-> content]

\* a call of a renderer for a scope, and whether it returned nil
Call(scope, format, ok) == [scope |-> scope, format |-> format, ok |-> ok]

\* a fetch of a source (a table, or the page of the team of an index), and
\* whether it returned nil
Fetch(name, team, ok) == [name |-> name, team |-> team, ok |-> ok]

\* the file of the scope and format is replaced by one with this content
fileWritten(scope, format, content) ==
    { f \in files : ~(f.scope = scope /\ f.format = format) }
        \cup {File(scope, format, content)}

\* no Game of a row yet: nothing found, nothing rendered
NoLoc == [Location |-> 0, CourtGymInfo |-> <<>>]
NoLocIn == [adapter |-> "", text |-> <<>>]

locIdle ==
    /\ AllLocations = <<>>
    /\ locIn = NoLocIn
    /\ gameLoc = NoLoc
    /\ locationHTML = <<>>

NoStream == [adapter |-> "", lines |-> <<>>, end |-> ""]

readIdle ==
    /\ stream = NoStream
    /\ iter = 0

\* main and its adapters have not run
mainIdle ==
    /\ AllTeams = <<>>
    /\ allGames = <<>>
    /\ allNotes = <<>>
    /\ teamIdx = 0
    /\ currentDate = NoDate
    /\ cursor = 0
    /\ rowsRead = 0
    /\ lastRow = NoRow
    /\ lastEmitted = FALSE
    /\ filterTeam = -1
    /\ now = 0
    /\ scheduleItems = <<>>
    /\ templateItems = <<>>
    /\ feed = NoFeed
    /\ dirs = {}
    /\ files = {}
    /\ calls = {}
    /\ sources = {}

Init ==
    /\ pc = "teams"
    /\ AllTeams = <<>>
    /\ allGames = <<>>
    /\ allNotes = <<>>
    /\ teamIdx = 0
    /\ currentDate = NoDate
    /\ cursor = 0
    /\ rowsRead = 0
    /\ lastRow = NoRow
    /\ lastEmitted = FALSE
    /\ filterTeam = -1
    /\ now = 0
    /\ scheduleItems = <<>>
    /\ templateItems = <<>>
    /\ feed = NoFeed
    /\ dirs = {}
    /\ files = {}
    /\ calls = {}
    /\ sources = {}
    /\ timeIn = <<>>
    /\ timeOut = <<>>
    /\ locIdle
    /\ readIdle

renderVars == <<filterTeam, now, scheduleItems, templateItems>>
outVars == <<feed, dirs, files, calls>>
timeVars == <<timeIn, timeOut>>
locVars == <<AllLocations, locIn, gameLoc, locationHTML>>
readVars == <<stream, iter>>
pureVars == <<timeVars, locVars, readVars>>

\* AllTeams, err = fetchTeams()
FetchTeams(sheets) ==
    /\ pc = "teams"
    /\ \E sheet \in sheets : AllTeams' = fetchTeams(sheet)
    /\ pc' = "locations"
    /\ teamIdx' = 1
    /\ sources' = sources \cup {Fetch("teams", 0, TRUE)}
    /\ UNCHANGED <<allGames, allNotes, currentDate, cursor, rowsRead, lastRow,
                   lastEmitted, renderVars, outVars,
                   pureVars>>

\* AllLocations, err = fetchLocations(); the Games of the model carry no
\* Location
FetchLocations ==
    /\ pc = "locations"
    /\ pc' = IF AllTeams = <<>> THEN "sheet" ELSE "scrape"
    /\ sources' = sources \cup {Fetch("locations", 0, TRUE)}
    /\ UNCHANGED <<AllTeams, allGames, allNotes, teamIdx, currentDate, cursor,
                   rowsRead, lastRow, lastEmitted, renderVars, outVars,
                   pureVars>>

\* the next row of the page of AllTeams[teamIdx] goes through the callback
ScrapeRow(page, maxRows) ==
    /\ pc = "scrape"
    /\ AllTeams[teamIdx].CBLLink1 # ""
    /\ rowsRead < maxRows
    /\ \E j \in (cursor + 1)..Len(page) :
        LET row == page[j]
            team == AllTeams[teamIdx]
            games == scrapeRowGames(AllTeams, team.Name, team.CBLName, row,
                                    currentDate)
        IN  /\ cursor' = j
            /\ currentDate' = currentDateAfter(row, currentDate)
            /\ allGames' = allGames \o games
            /\ lastRow' = [kind |-> "scrape", row |-> row,
                           htmlName |-> team.CBLName]
            /\ lastEmitted' = (games # <<>>)
    /\ rowsRead' = rowsRead + 1
    /\ UNCHANGED <<pc, AllTeams, allNotes, teamIdx, renderVars, outVars,
                   sources,
                   pureVars>>

\* scrapeTeamSchedule returns, or the team has no page: the next team
ScrapeReturn ==
    /\ pc = "scrape"
    /\ teamIdx' = teamIdx + 1
    /\ pc' = IF teamIdx = Len(AllTeams) THEN "sheet" ELSE "scrape"
    /\ currentDate' = NoDate
    /\ cursor' = 0
    /\ rowsRead' = 0
    /\ lastRow' = NoRow
    /\ lastEmitted' = FALSE
    /\ sources' = IF AllTeams[teamIdx].CBLLink1 # ""
                  THEN sources \cup {Fetch("page", teamIdx, TRUE)}
                  ELSE sources
    /\ UNCHANGED <<AllTeams, allGames, allNotes, renderVars, outVars,
                   pureVars>>

\* the next record of the games sheet goes through the loop body
SheetGameRow(sheet, maxRows) ==
    /\ pc = "sheet"
    /\ rowsRead < maxRows
    /\ \E j \in (cursor + 1)..Len(sheet) :
        LET games == sheetRowGames(AllTeams, sheet[j])
        IN  /\ cursor' = j
            /\ allGames' = allGames \o games
            /\ lastRow' = [kind |-> "sheet", row |-> sheet[j]]
            /\ lastEmitted' = (games # <<>>)
    /\ rowsRead' = rowsRead + 1
    /\ UNCHANGED <<pc, AllTeams, allNotes, teamIdx, currentDate, renderVars,
                   outVars, sources,
                   pureVars>>

\* SheetGamesReturn without the exit on no games
SheetGamesReturnNoCheck ==
    /\ pc = "sheet"
    /\ pc' = "notes"
    /\ cursor' = 0
    /\ rowsRead' = 0
    /\ lastRow' = NoRow
    /\ lastEmitted' = FALSE
    /\ sources' = sources \cup {Fetch("games", 0, TRUE)}
    /\ UNCHANGED <<AllTeams, allGames, allNotes, teamIdx, currentDate,
                   renderVars, outVars,
                   pureVars>>

\* fetchGoogleSheetGames returns; "No games found" ends the run
SheetGamesReturn ==
    /\ pc = "sheet"
    /\ pc' = IF Len(allGames) = 0 THEN "exit" ELSE "notes"
    /\ cursor' = 0
    /\ rowsRead' = 0
    /\ lastRow' = NoRow
    /\ lastEmitted' = FALSE
    /\ sources' = sources \cup {Fetch("games", 0, TRUE)}
    /\ UNCHANGED <<AllTeams, allGames, allNotes, teamIdx, currentDate,
                   renderVars, outVars,
                   pureVars>>

\* the next record of the notes sheet goes through the loop body
NoteRowStep(sheet, maxRows) ==
    /\ pc = "notes"
    /\ rowsRead < maxRows
    /\ \E j \in (cursor + 1)..Len(sheet) :
        /\ cursor' = j
        /\ allNotes' = allNotes \o sheetRowNotes(sheet[j])
    /\ rowsRead' = rowsRead + 1
    /\ UNCHANGED <<pc, AllTeams, allGames, teamIdx, currentDate, lastRow,
                   lastEmitted, renderVars, outVars, sources,
                   pureVars>>

\* fetchGoogleSheetNotes returns: the combined scope is rendered first
NotesReturn ==
    /\ pc = "notes"
    /\ pc' = "mkdir"
    /\ teamIdx' = 0
    /\ cursor' = 0
    /\ rowsRead' = 0
    /\ sources' = sources \cup {Fetch("notes", 0, TRUE)}
    /\ UNCHANGED <<AllTeams, allGames, allNotes, currentDate, lastRow,
                   lastEmitted, renderVars, outVars,
                   pureVars>>

\* os.MkdirAll(distDir, 0755) for the combined scope, os.MkdirAll(teamDir,
\* 0755) for the scope of a team
MkdirAll ==
    /\ pc = "mkdir"
    /\ dirs' = dirs \cup {teamIdx}
    /\ pc' = "html"
    /\ UNCHANGED <<AllTeams, allGames, allNotes, teamIdx, currentDate, cursor,
                   rowsRead, lastRow, lastEmitted, renderVars, feed, files,
                   calls, sources,
                   pureVars>>

\* the order in which the sorted scheduleItems point at the Games
gameOrder(sorted) ==
    LET isGame(it) == ~it.IsNote
        games == SelectSeq(sorted, isGame)
    IN  [i \in 1..Len(games) |-> games[i].idx]

\* generateHTML with sort.Slice applied to gamesToDisplay itself, which in
\* the combined scope is the slice main holds
allGamesAfterSortInPlace(games, ft, sorted) ==
    IF ft = 0 THEN [i \in 1..Len(games) |-> games[gameOrder(sorted)[i]]]
    ELSE games

\* the slice main holds when generateHTML returns.  In the combined scope
\* gamesToDisplay is that slice, in the scope of a team a new one; sort.Slice
\* swaps the elements of scheduleItems, which point at the Games, and the
\* template data is built from what they point at: no Game is written
allGamesAfter(games, ft, sorted) == games

\* generateHTML(allGames, allNotes, ..., filterTeam) for the scope teamIdx
\* (0 is nil, the combined scope), down to the template data
GenerateHTML ==
    /\ pc = "html"
    /\ LET G == gamesToDisplay(allGames, AllTeams, teamIdx)
           N == notesToDisplay(allNotes, AllTeams, teamIdx)
           items == itemsToSort(G, N)
       IN  /\ scheduleItems' \in sortSlice(items, Len(items), G, N, AllTeams)
           /\ now' \in Nows
           /\ templateItems' = templateItemsOf(G, scheduleItems', now')
    /\ allGames' = allGamesAfter(allGames, teamIdx, scheduleItems')
    /\ filterTeam' = teamIdx
    /\ pc' = "write"
    /\ UNCHANGED <<AllTeams, allNotes, teamIdx, currentDate, cursor,
                   rowsRead, lastRow, lastEmitted, outVars, sources,
                   pureVars>>

\* generateHTML writes the file and returns; main goes on to the next scope
WriteHTML ==
    /\ pc = "write"
    /\ filterTeam' = -1
    /\ now' = 0
    /\ scheduleItems' = <<>>
    /\ templateItems' = <<>>
    /\ files' = fileWritten(teamIdx, "html", "complete")
    /\ calls' = calls \cup {Call(teamIdx, "html", TRUE)}
    /\ pc' = "ical"
    /\ UNCHANGED <<AllTeams, allGames, allNotes, teamIdx, currentDate, cursor,
                   rowsRead, lastRow, lastEmitted, feed, dirs, sources,
                   pureVars>>

\* generateICalendar(allGames, allNotes, ..., filterTeam) for the scope
\* teamIdx; main goes on to the next scope
GenerateICalendar ==
    /\ pc = "ical"
    /\ feed' = [filterTeam |-> teamIdx,
                name |-> calName(AllTeams, teamIdx),
                events |-> icalEvents(allGames, allNotes, AllTeams, teamIdx)]
    /\ files' = fileWritten(teamIdx, "ics", "complete")
    /\ calls' = calls \cup {Call(teamIdx, "ics", TRUE)}
    /\ teamIdx' = teamIdx + 1
    /\ pc' = IF teamIdx = Len(AllTeams) THEN "done" ELSE "mkdir"
    /\ UNCHANGED <<AllTeams, allGames, allNotes, currentDate, cursor, rowsRead,
                   lastRow, lastEmitted, renderVars, dirs, sources,
                   pureVars>>

Next ==
    \/ FetchTeams(TeamSheets)
    \/ FetchLocations
    \/ ScrapeRow(Page, MaxRows)
    \/ ScrapeReturn
    \/ SheetGameRow(GamesSheet, MaxRows)
    \/ SheetGamesReturn
    \/ NoteRowStep(NotesSheet, MaxRows)
    \/ NotesReturn
    \/ MkdirAll
    \/ GenerateHTML
    \/ WriteHTML
    \/ GenerateICalendar

Spec == Init /\ [][Next]_vars

----------------------------------------------------------------------------
(* The adapters on score rows: the page and the games sheet hold one row   *)
(* for every pair of scores, and the run is followed up to the return of   *)
(* fetchGoogleSheetGames                                                   *)

\* the scores written in the rows, one and two digits long
Scores == <<9, 10, 42>>

ScorePairs ==
    [k \in 1..(Len(Scores) * Len(Scores)) |->
        << Scores[((k - 1) \div Len(Scores)) + 1],
           Scores[((k - 1) % Len(Scores)) + 1] >>]

\* the date header, then Blue as visitor and Blue as home for every pair
\* of visitor score and home score
ScorePage ==
    << HeaderRow(Saturday) >>
    \o [k \in 1..Len(ScorePairs) |->
           DataRow(8, "1", SatSixPM, BlueLabel, Dec(ScorePairs[k][1]),
                   Dec(ScorePairs[k][2]), "Hawks")]
    \o [k \in 1..Len(ScorePairs) |->
           DataRow(8, "2", SatSixPM, "Hawks", Dec(ScorePairs[k][1]),
                   Dec(ScorePairs[k][2]), BlueLabel)]

\* a record of Blue with the score text "own-other" for every pair
ScoreSheet ==
    [k \in 1..Len(ScorePairs) |->
        SheetRow(Blue, Num4Date(10, 18, 2025), SixPM, <<>>, "Hawks",
                 Dec(ScorePairs[k][1]) \o <<"-">> \o Dec(ScorePairs[k][2]))]

NextAdapters ==
    \/ FetchTeams(TeamSheets)
    \/ FetchLocations
    \/ ScrapeRow(ScorePage, MaxScoreRows)
    \/ ScrapeReturn
    \/ SheetGameRow(ScoreSheet, MaxScoreRows)
    \/ SheetGamesReturn

SpecAdapters == Init /\ [][NextAdapters]_vars

----------------------------------------------------------------------------
(* formatTime on the time texts "H:MM AM" and "H:MM PM", on "TBD" and on   *)
(* the empty text, applied to a text and then to its own results           *)

MinuteTexts == {<<"0","0">>, <<"0","5">>, <<"3","0">>}

\* the text "H:MM AM" or "H:MM PM"
ClockText(h, mm, ampm) == Dec(h) \o <<":">> \o mm \o <<" ", ampm, "M">>

TimeInputs ==
    { ClockText(h, mm, ampm) :
          h \in 1..12, mm \in MinuteTexts, ampm \in {"A", "P"} }
        \cup {TBD, <<>>}

InitFormatTime ==
    /\ pc = "format"
    /\ timeIn \in TimeInputs
    /\ timeOut = timeIn
    /\ AllTeams = <<>>
    /\ allGames = <<>>
    /\ allNotes = <<>>
    /\ teamIdx = 0
    /\ currentDate = NoDate
    /\ cursor = 0
    /\ rowsRead = 0
    /\ lastRow = NoRow
    /\ lastEmitted = FALSE
    /\ filterTeam = -1
    /\ now = 0
    /\ scheduleItems = <<>>
    /\ templateItems = <<>>
    /\ feed = NoFeed
    /\ dirs = {}
    /\ files = {}
    /\ calls = {}
    /\ sources = {}
    /\ locIdle
    /\ readIdle

\* timeOut = formatTime(timeOut)
FormatTime ==
    /\ pc \in {"format", "formatted"}
    /\ timeOut' = formatTime(timeOut)
    /\ pc' = "formatted"
    /\ UNCHANGED <<AllTeams, allGames, allNotes, teamIdx, currentDate, cursor,
                   rowsRead, lastRow, lastEmitted, renderVars, outVars,
                   sources, timeIn, locVars, readVars>>

SpecFormatTime == InitFormatTime /\ [][FormatTime]_vars

----------------------------------------------------------------------------
(* The run in which fetches, os.MkdirAll and the renderers may fail *)

\* fetchTeams returns an error: os.Exit(1)
FetchTeamsFail ==
    /\ pc = "teams"
    /\ pc' = "exit"
    /\ sources' = sources \cup {Fetch("teams", 0, FALSE)}
    /\ UNCHANGED <<AllTeams, allGames, allNotes, teamIdx, currentDate, cursor,
                   rowsRead, lastRow, lastEmitted, renderVars, outVars,
                   pureVars>>

\* fetchLocations returns an error: "Use empty slice if fetch fails"
FetchLocationsFail ==
    /\ pc = "locations"
    /\ pc' = IF AllTeams = <<>> THEN "sheet" ELSE "scrape"
    /\ sources' = sources \cup {Fetch("locations", 0, FALSE)}
    /\ UNCHANGED <<AllTeams, allGames, allNotes, teamIdx, currentDate, cursor,
                   rowsRead, lastRow, lastEmitted, renderVars, outVars,
                   pureVars>>

\* scrapeTeamSchedule returns an error before it reads a row: continue
ScrapeFail ==
    /\ pc = "scrape"
    /\ AllTeams[teamIdx].CBLLink1 # ""
    /\ rowsRead = 0
    /\ teamIdx' = teamIdx + 1
    /\ pc' = IF teamIdx = Len(AllTeams) THEN "sheet" ELSE "scrape"
    /\ sources' = sources \cup {Fetch("page", teamIdx, FALSE)}
    /\ UNCHANGED <<AllTeams, allGames, allNotes, currentDate, cursor, rowsRead,
                   lastRow, lastEmitted, renderVars, outVars,
                   pureVars>>

\* fetchGoogleSheetGames returns an error: no Game of the sheet is added
SheetGamesFail ==
    /\ pc = "sheet"
    /\ rowsRead = 0
    /\ pc' = IF Len(allGames) = 0 THEN "exit" ELSE "notes"
    /\ sources' = sources \cup {Fetch("games", 0, FALSE)}
    /\ UNCHANGED <<AllTeams, allGames, allNotes, teamIdx, currentDate, cursor,
                   rowsRead, lastRow, lastEmitted, renderVars, outVars,
                   pureVars>>

\* fetchGoogleSheetNotes returns an error: "Use empty slice if fetch fails"
NotesFail ==
    /\ pc = "notes"
    /\ rowsRead = 0
    /\ allNotes' = <<>>
    /\ pc' = "mkdir"
    /\ teamIdx' = 0
    /\ sources' = sources \cup {Fetch("notes", 0, FALSE)}
    /\ UNCHANGED <<AllTeams, allGames, currentDate, cursor, rowsRead, lastRow,
                   lastEmitted, renderVars, outVars,
                   pureVars>>

\* os.MkdirAll returns an error: os.Exit(1) for distDir, continue for the
\* directory of a team
MkdirAllFail ==
    /\ pc = "mkdir"
    /\ teamIdx' = IF teamIdx = 0 THEN 0 ELSE teamIdx + 1
    /\ pc' = IF teamIdx = 0 THEN "exit"
             ELSE IF teamIdx = Len(AllTeams) THEN "done" ELSE "mkdir"
    /\ UNCHANGED <<AllTeams, allGames, allNotes, currentDate, cursor, rowsRead,
                   lastRow, lastEmitted, renderVars, outVars, sources,
                   pureVars>>

\* generateHTML returns an error: from template.Parse or os.Create, with the
\* file untouched, or from tmpl.Execute, after os.Create has made the file
\* and a part of the page may have been written.  os.Exit(1) for the
\* combined scope; for a team main goes on to generateICalendar.
GenerateHTMLFail ==
    /\ pc = "html"
    /\ files' \in {files, fileWritten(teamIdx, "html", "partial")}
    /\ calls' = calls \cup {Call(teamIdx, "html", FALSE)}
    /\ pc' = IF teamIdx = 0 THEN "exit" ELSE "ical"
    /\ UNCHANGED <<AllTeams, allGames, allNotes, teamIdx, currentDate, cursor,
                   rowsRead, lastRow, lastEmitted, renderVars, feed, dirs,
                   sources,
                   pureVars>>

\* generateICalendar returns the error of os.WriteFile: the file could not
\* be opened, or it was opened (and truncated) and the write failed
GenerateICalendarFail ==
    /\ pc = "ical"
    /\ feed' = [filterTeam |-> teamIdx,
                name |-> calName(AllTeams, teamIdx),
                events |-> icalEvents(allGames, allNotes, AllTeams, teamIdx)]
    /\ files' \in {files, fileWritten(teamIdx, "ics", "partial")}
    /\ calls' = calls \cup {Call(teamIdx, "ics", FALSE)}
    /\ teamIdx' = teamIdx + 1
    /\ pc' = IF teamIdx = Len(AllTeams) THEN "done" ELSE "mkdir"
    /\ UNCHANGED <<AllTeams, allGames, allNotes, currentDate, cursor, rowsRead,
                   lastRow, lastEmitted, renderVars, dirs, sources,
                   pureVars>>

\* the page of Blue: the date header and one game
FaultPage ==
    << HeaderRow(Saturday),
       DataRow(8, "2", SatSixPM, "Hawks", <<"3","8">>, <<"4","2">>, BlueLabel) >>

FaultGames ==
    << SheetRow(Red, Num4Date(10, 19, 2025), TBD, <<>>, "Owls", <<>>) >>

FaultNotes ==
    << NoteRow(Num4Date(10, 18, 2025), PictureDay, AllTeamsText) >>

NextFaults ==
    \/ FetchTeams(TeamSheets)
    \/ FetchTeamsFail
    \/ FetchLocations
    \/ FetchLocationsFail
    \/ ScrapeRow(FaultPage, MaxRows)
    \/ ScrapeReturn
    \/ ScrapeFail
    \/ SheetGameRow(FaultGames, MaxRows)
    \/ SheetGamesReturn
    \/ SheetGamesFail
    \/ NoteRowStep(FaultNotes, MaxRows)
    \/ NotesReturn
    \/ NotesFail
    \/ MkdirAll
    \/ MkdirAllFail
    \/ GenerateHTML
    \/ GenerateHTMLFail
    \/ WriteHTML
    \/ GenerateICalendar
    \/ GenerateICalendarFail

SpecFaults == Init /\ [][NextFaults]_vars

----------------------------------------------------------------------------
(* The run on a roster in which one team's name is part of another's, with *)
(* notes for several audiences; no team has a results page                 *)

BlueTwo == Blue \o <<" ", "2">>

AudienceTeamSheets ==
    { << TeamRow(Blue, "12u-blue", "", ""),
         TeamRow(BlueTwo, "12u-blue-2", "", ""),
         TeamRow(Red, "12u-red", "", "") >> }

AudienceGames ==
    << SheetRow(Blue, Num4Date(10, 18, 2025), SixPM, <<>>, "Hawks", <<>>),
       SheetRow(Red, Num4Date(10, 19, 2025), TBD, <<>>, "Owls", <<>>) >>

\* notes for all teams, for Blue, for the second Blue team, and for Red
\* and Blue
AudienceNotes ==
    << NoteRow(Num4Date(10, 18, 2025), PictureDay, <<"A","L","L"," ","T","E","A","M","S">>),
       NoteRow(Num4Date(10, 18, 2025), BringSnacks, <<"1","2","u"," ","b","l","u","e">>),
       NoteRow(Num4Date(10, 19, 2025), Banquet, BlueTwo),
       NoteRow(Num4Date(10, 20, 2025), <<"P","a","r","t","y">>,
               Red \o <<",", " ">> \o Blue) >>

NextAudience ==
    \/ FetchTeams(AudienceTeamSheets)
    \/ FetchLocations
    \/ ScrapeReturn
    \/ SheetGameRow(AudienceGames, MaxRows)
    \/ SheetGamesReturn
    \/ NoteRowStep(AudienceNotes, MaxRows)
    \/ NotesReturn
    \/ MkdirAll
    \/ GenerateHTML
    \/ WriteHTML
    \/ GenerateICalendar

SpecAudience == Init /\ [][NextAudience]_vars

----------------------------------------------------------------------------
(* The run on rosters whose Slug cells are different, equal, or empty; no  *)
(* team has a results page                                                 *)

SlugTeamSheets ==
    { << TeamRow(Blue, "12u-blue", "", ""), TeamRow(Red, "12u-red", "", "") >>,
      << TeamRow(Blue, "12u", "", ""), TeamRow(Red, "12u", "", "") >>,
      << TeamRow(Blue, "", "", ""), TeamRow(Red, "", "", "") >> }

NextSlugs ==
    \/ FetchTeams(SlugTeamSheets)
    \/ FetchLocations
    \/ ScrapeReturn
    \/ SheetGameRow(AudienceGames, MaxRows)
    \/ SheetGamesReturn
    \/ NoteRowStep(AudienceNotes, MaxRows)
    \/ NotesReturn
    \/ MkdirAll
    \/ GenerateHTML
    \/ WriteHTML
    \/ GenerateICalendar

SpecSlugs == Init /\ [][NextSlugs]_vars

----------------------------------------------------------------------------
(* The run on games and notes chosen for the feed: games without a time,   *)
(* with a time text that holds no time-of-day, late in the evening, dated  *)
(* in 2099, and with a date no layout reads; no team has a results page    *)

CalendarTeamSheets ==
    { << TeamRow(Blue, "12u-blue", "", ""),
         TeamRow(Red, "12u-red", "", "") >> }

CalendarGames ==
    << SheetRow(Blue, Num4Date(10, 18, 2025), TBD, <<>>, "Owls", <<>>),
       SheetRow(Blue, Num4Date(10, 18, 2025), <<>>, <<>>, "Hawks", <<>>),
       SheetRow(Blue, Num4Date(6, 1, 2099), SixPM, <<>>, "Eagles", <<>>),
       SheetRow(Blue, OtherDate("TBA"), SixPM, <<>>, "Eagles", <<>>),
       SheetRow(Red, Num4Date(10, 18, 2025), <<"6",":","0","0">>, <<>>,
                "Owls", <<>>),
       SheetRow(Red, Num4Date(10, 19, 2025),
                <<"1","1",":","3","0"," ","P","M">>, <<>>, "Hawks", <<>>),
       SheetRow(Red, Num4Date(10, 19, 2025),
                <<"6",":","0","0"," ","p","m">>, <<>>, "Owls", <<>>),
       SheetRow(Blue, Num4Date(10, 19, 2025),
                <<"1",":","0","0"," ","P","M",","," ","2",":","0","0">>,
                <<>>, "Owls", <<>>) >>

NextCalendar ==
    \/ FetchTeams(CalendarTeamSheets)
    \/ FetchLocations
    \/ ScrapeReturn
    \/ SheetGameRow(CalendarGames, MaxRows)
    \/ SheetGamesReturn
    \/ NoteRowStep(NotesSheet, MaxRows)
    \/ NotesReturn
    \/ MkdirAll
    \/ GenerateHTML
    \/ WriteHTML
    \/ GenerateICalendar

SpecCalendar == Init /\ [][NextCalendar]_vars

----------------------------------------------------------------------------
(* The run on a page with several headers, matching the date pattern and   *)
(* not, with rows of the team as visitor, as home, as both and as neither, *)
(* and on a games sheet with score texts of many shapes                    *)

Sunday == LongDate(6, 2025, 10, 19)

TablePage ==
    << DataRow(8, "1", HalfTenAM, BlueLabel, Unplayed, Unplayed, "Eagles"),
       HeaderRow(Saturday),
       HeaderRow(OtherDate("Pool B")),
       DataRow(8, "2", SixPM, "Hawks", <<"F">>, <<"7">>, BlueLabel),
       DataRow(8, "3", SixPM, BlueLabel, <<"3">>, <<"8">>, BlueLabel),
       HeaderRow(Sunday),
       DataRow(8, "4", HalfTenAM, "Owls", <<"1">>, <<"2">>, "Eagles"),
       DataRow(8, "5", HalfTenAM, BlueLabel, <<"4">>, <<"2">>,
               "Lightning 12U Blue 2") >>

ScoreTexts ==
    << <<"4","-","2">>, <<"W","-","3">>, <<"4","-">>, <<"7">>,
       <<"4","-","2","-","1">>, <<"4"," ","-"," ","7">> >>

ScoreTextSheet ==
    [k \in 1..Len(ScoreTexts) |->
        SheetRow(Blue, Num4Date(10, 18, 2025), SixPM, <<>>, "Hawks",
                 ScoreTexts[k])]

NextScrape ==
    \/ FetchTeams(TeamSheets)
    \/ FetchLocations
    \/ ScrapeRow(TablePage, MaxPageRows)
    \/ ScrapeReturn
    \/ SheetGameRow(ScoreTextSheet, MaxRows)
    \/ SheetGamesReturn

SpecScrape == Init /\ [][NextScrape]_vars

----------------------------------------------------------------------------
(* Locations: fetchLocations, findLocationByName, findLocationByAbbrev and *)
(* the locationHTML of generateHTML.  A Location is a record of the texts  *)
(* Abbrev, Name and Address; a *Location is an index of AllLocations, 0    *)
(* for nil.                                                                *)

Location(abbrev, name, address) ==
    [Abbrev |-> abbrev, Name |-> name, Address |-> address]

\* fetchLocations: the data rows with a Name, in the order of the sheet
fetchLocationsRows(sheet) == SelectSeq(sheet, LAMBDA r : r.Name # <<>>)

\* strings.Index(s, sub): the first place of sub in s from 0, -1 if none
Index(s, sub) ==
    IF Contains(s, sub)
    THEN CHOOSE i \in 0..(Len(s) - Len(sub)) :
             /\ SubSeq(s, i + 1, i + Len(sub)) = sub
             /\ \A j \in 0..(i - 1) : SubSeq(s, j + 1, j + Len(sub)) # sub
    ELSE -1

Separator == <<" ", "-", " ">>

\* the base name and the court/gym info of a trimmed location text
baseNameOf(name) ==
    IF Index(name, Separator) # -1
    THEN TrimSpace(SubSeq(name, 1, Index(name, Separator)))
    ELSE name

courtGymInfoOf(name) ==
    IF Index(name, Separator) # -1
    THEN TrimSpace(SubSeq(name, Index(name, Separator) + 4, Len(name)))
    ELSE <<>>

\* the first Location of the table whose field (Name or Abbrev) is the base
firstLocation(table, field, base) ==
    IF \E i \in 1..Len(table) : table[i][field] = base
    THEN CHOOSE i \in 1..Len(table) :
             /\ table[i][field] = base
             /\ \A j \in 1..(i - 1) : table[j][field] # base
    ELSE 0

findLocation(table, field, text) ==
    LET name == TrimSpace(text)
    IN  IF name = <<>> \/ name = TBD THEN NoLoc
        ELSE [Location |-> firstLocation(table, field, baseNameOf(name)),
              CourtGymInfo |-> courtGymInfoOf(name)]

findLocationByName(table, name) == findLocation(table, "Name", name)

findLocationByAbbrev(table, abbrev) == findLocation(table, "Abbrev", abbrev)

\* strings.ReplaceAll(s, " ", "+")
SpacesToPlus(s) == [i \in 1..Len(s) |-> IF s[i] = " " THEN "+" ELSE s[i]]

\* generateHTML's locationHTML for a Game with this Location and CourtGymInfo
locationHTMLOf(table, loc) ==
    IF loc.Location # 0
    THEN LET l == table[loc.Location]
             locDisplay ==
                 IF l.Address # <<>>
                 THEN <<"<a href=\"https://maps.google.com/?q=">>
                      \o SpacesToPlus(l.Address)
                      \o <<"\" target=\"_blank\">">> \o l.Abbrev \o <<"</a>">>
                 ELSE l.Abbrev
         IN  IF loc.CourtGymInfo # <<>>
             THEN locDisplay \o <<" ", "(">> \o ToLower(loc.CourtGymInfo)
                  \o <<")">>
             ELSE locDisplay
    ELSE TBD

ElmPark == <<"E","l","m"," ","P","a","r","k">>
OakGym == <<"O","a","k"," ","G","y","m">>
FirHall == <<"F","i","r"," ","H","a","l","l">>
AshDome == <<"A","s","h"," ","D","o","m","e">>
CourtTwo == <<"C","o","u","r","t"," ","2">>

\* the locations sheet: with and without abbreviation, with and without
\* address, and a row without a name
LocationsSheet ==
    << Location(<<"E","P">>, ElmPark, <<"1"," ","E","l","m"," ","S","t">>),
       Location(<<>>, OakGym, <<>>),
       Location(<<>>, FirHall, <<"2"," ","F","i","r"," ","R","d">>),
       Location(<<"X">>, <<>>, <<>>),
       Location(<<"A","D">>, AshDome, <<>>) >>

LocationSheets ==
    { LocationsSheet, SubSeq(LocationsSheet, 1, 3), <<>> }

\* the location texts of the rows: full names, abbreviations, unknown
\* names, each with and without a court, padded, absent and "TBD"
LocationTexts ==
    LET bases == { ElmPark, OakGym, FirHall, AshDome, <<"E","P">>,
                   <<"A","D">>, <<"Z","o","o">> }
    IN  bases
        \cup { b \o Separator \o CourtTwo : b \in bases }
        \cup { <<" ">> \o ElmPark \o <<" ">>, <<>>, TBD,
               <<"E","P","-","2">> }

InitLocations ==
    /\ pc = "find"
    /\ AllLocations \in { fetchLocationsRows(sh) : sh \in LocationSheets }
    /\ locIn \in [adapter : {"scrape", "sheet"}, text : LocationTexts]
    /\ gameLoc = NoLoc
    /\ locationHTML = <<>>
    /\ mainIdle
    /\ timeIn = <<>>
    /\ timeOut = <<>>
    /\ readIdle

\* loc, courtGymInfo := findLocationByName(location) in scrapeTeamSchedule,
\* findLocationByAbbrev(location) in fetchGoogleSheetGames
FindLocation ==
    /\ pc = "find"
    /\ gameLoc' = IF locIn.adapter = "scrape"
                  THEN findLocationByName(AllLocations, locIn.text)
                  ELSE findLocationByAbbrev(AllLocations, locIn.text)
    /\ pc' = "found"
    /\ UNCHANGED <<AllTeams, allGames, allNotes, teamIdx, currentDate, cursor,
                   rowsRead, lastRow, lastEmitted, renderVars, outVars,
                   sources, timeVars, AllLocations, locIn, locationHTML,
                   readVars>>

\* generateHTML builds the locationHTML of the Game
LocationHTML ==
    /\ pc = "found"
    /\ locationHTML' = locationHTMLOf(AllLocations, gameLoc)
    /\ pc' = "shown"
    /\ UNCHANGED <<AllTeams, allGames, allNotes, teamIdx, currentDate, cursor,
                   rowsRead, lastRow, lastEmitted, renderVars, outVars,
                   sources, timeVars, AllLocations, locIn, gameLoc,
                   readVars>>

NextLocations == FindLocation \/ LocationHTML

SpecLocations == InitLocations /\ [][NextLocations]_vars

----------------------------------------------------------------------------
(* The row loop of the tabular adapters fetchTeams, fetchLocations,        *)
(* fetchGoogleSheetGames and fetchGoogleSheetNotes on a csv.Reader.  A     *)
(* line of the stream is a record ("rec") or text that is no record        *)
(* ("bad": Read returns a parse error and goes on to the next line).       *)
(* After the lines Read returns io.EOF ("eof") or, when the body can no    *)
(* longer be read, the error of the body on every call ("ioerr").          *)

TabularAdapters ==
    {"fetchTeams", "fetchLocations", "fetchGoogleSheetGames",
     "fetchGoogleSheetNotes"}

Streams ==
    [adapter : TabularAdapters,
     lines : UNION { [1..n -> {"rec", "bad"}] : n \in 0..MaxLines },
     end : {"eof", "ioerr"}]

InitReaders ==
    /\ pc = "header"
    /\ stream \in Streams
    /\ iter = 0
    /\ mainIdle
    /\ timeIn = <<>>
    /\ timeOut = <<>>
    /\ locIdle

\* headers, err := reader.Read(): any error ends the adapter
ReadHeader ==
    /\ pc = "header"
    /\ IF stream.lines # <<>> /\ stream.lines[1] = "rec"
       THEN /\ pc' = "rows"
            /\ cursor' = 1
       ELSE /\ pc' = "failed"
            /\ cursor' = cursor
    /\ UNCHANGED <<AllTeams, allGames, allNotes, teamIdx, currentDate,
                   rowsRead, lastRow, lastEmitted, renderVars, outVars,
                   sources, timeVars, locVars, readVars>>

\* one iteration of "for { record, err := reader.Read() ... }": break on
\* io.EOF, continue on any other error, else the loop body on the record
ReadRow ==
    /\ pc = "rows"
    /\ iter' = 1 - iter
    /\ IF cursor < Len(stream.lines)
       THEN /\ cursor' = cursor + 1
            /\ rowsRead' = IF stream.lines[cursor + 1] = "rec"
                           THEN rowsRead + 1 ELSE rowsRead
            /\ pc' = pc
       ELSE /\ cursor' = cursor
            /\ rowsRead' = rowsRead
            /\ pc' = IF stream.end = "eof" THEN "returned" ELSE pc
    /\ UNCHANGED <<AllTeams, allGames, allNotes, teamIdx, currentDate,
                   lastRow, lastEmitted, renderVars, outVars, sources,
                   timeVars, locVars, stream>>

NextReaders == ReadHeader \/ ReadRow

\* the adapter runs on: no iteration waits for anything
SpecReaders ==
    InitReaders /\ [][NextReaders]_vars /\ WF_vars(NextReaders)

----------------------------------------------------------------------------
(* The scope being rendered, read in the states where generateHTML has     *)
(* built its template data                                                 *)

Rendered == pc = "write"

shownGames == gamesToDisplay(allGames, AllTeams, filterTeam)
shownNotes == notesToDisplay(allNotes, AllTeams, filterTeam)

Positions == 1..Len(scheduleItems)
GamePositions == { i \in Positions : ~scheduleItems[i].IsNote }
NotePositions == { i \in Positions : scheduleItems[i].IsNote }

gameAt(i) == shownGames[scheduleItems[i].idx]
noteAt(i) == shownNotes[scheduleItems[i].idx]
dateTextAt(i) == IF scheduleItems[i].IsNote THEN noteAt(i).Date ELSE gameAt(i).Date
dateAt(i) == parseDateForSorting(dateTextAt(i))

\* no layout reads the date text
Unparseable(dateText) == ~firstParse(SortLayouts, 1, dateText).ok

lessAt(i, j) ==
    less(shownGames, shownNotes, AllTeams, scheduleItems[i], scheduleItems[j])

\* a time-of-day was read from the time text
TimedAt(i) ==
    /\ ~isTBD(gameAt(i).Time)
    /\ parseTimeToMinutes(gameAt(i).Time) # UnparsedMinutes

minutesAt(i) == parseTimeToMinutes(gameAt(i).Time)
orderAt(i) == AllTeams[gameAt(i).Team].Order
nameAt(i) == AllTeams[gameAt(i).Team].Name

\* team sort order, then team name: i's team does not come after j's
TeamOrdered(i, j) ==
    \/ orderAt(i) < orderAt(j)
    \/ orderAt(i) = orderAt(j) /\ ~StrLess(nameAt(j), nameAt(i))

\* the Game appended by the last adapter step
lastGame == allGames[Len(allGames)]

\* the text is a number written in digits, and its value
IsNumber(s) == s # <<>> /\ \A i \in 1..Len(s) : IsDigit(s[i])

\* the last step read a played game of the team from the scraped table
ScrapedScores ==
    /\ lastRow.kind = "scrape"
    /\ lastEmitted
    /\ IsNumber(lastRow.row.visitorScore)
    /\ IsNumber(lastRow.row.homeScore)

\* the team's own score and the other side's in the scraped row
scrapedOwn ==
    IF lastRow.row.visitor = lastRow.htmlName
    THEN DecVal(lastRow.row.visitorScore) ELSE DecVal(lastRow.row.homeScore)
scrapedOther ==
    IF lastRow.row.visitor = lastRow.htmlName
    THEN DecVal(lastRow.row.homeScore) ELSE DecVal(lastRow.row.visitorScore)

sheetScoreParts == Split(lastRow.row.Score, "-")

\* the last step read a record with the score text "own-other"
SheetScores ==
    /\ lastRow.kind = "sheet"
    /\ lastEmitted
    /\ Len(sheetScoreParts) = 2
    /\ IsNumber(sheetScoreParts[1])
    /\ IsNumber(sheetScoreParts[2])

sheetOwn == DecVal(sheetScoreParts[1])
sheetOther == DecVal(sheetScoreParts[2])

\* the feed of a scope has been built
Exported == feed.filterTeam >= 0

\* the games and the notes of the scope of the feed
exportedGames == gamesToDisplay(allGames, AllTeams, feed.filterTeam)
exportedNotes == notesToDisplay(allNotes, AllTeams, feed.filterTeam)

\* the events of the feed made for the k-th game, or note, of the scope
eventsOf(kind, k) ==
    { e \in 1..Len(feed.events) :
          feed.events[e].kind = kind /\ feed.events[e].idx = k }

\* a time-of-day was read from the time text of the game
HasTimeOfDay(g) ==
    /\ g.Time # TBD /\ g.Time # <<>>
    /\ parseTimeToMinutes(g.Time) # UnparsedMinutes

\* the characters escapeICalText deals with, and another one
EscapeChars == {"a", ",", ";", "\\", "\n", "\r"}

\* the texts of at most MaxEscapeLen of these characters
EscapeInputs ==
    UNION { [1..n -> EscapeChars] : n \in 0..MaxEscapeLen }

\* the text holds no line break, and no comma, semicolon or backslash
\* other than in the pairs \\, \, \; and \n
RECURSIVE WellEscaped(_)
WellEscaped(s) ==
    IF s = <<>> THEN TRUE
    ELSE IF s[1] = "\\"
    THEN /\ Len(s) >= 2
         /\ s[2] \in {"\\", ",", ";", "n"}
         /\ WellEscaped(SubSeq(s, 3, Len(s)))
    ELSE /\ s[1] \notin {",", ";", "\n", "\r"}
         /\ WellEscaped(Tail(s))

\* escapeICalText escapes every text of EscapeInputs
escapeICalTextEscapes ==
    \A t \in EscapeInputs : WellEscaped(escapeICalText(t))

\* the text in capital letters
ToUpperText(s) ==
    [i \in 1..Len(s) |->
        IF Code(s[i]) >= Code("a") /\ Code(s[i]) <= Code("z")
        THEN Alphabet[Code(s[i]) - 26] ELSE s[i]]

\* the time text holds H:MM and AM or PM, in whatever letter case
ClockTextAnyCase(t) == FindTimeMatch(ToUpperText(t)).ok

\* the names of the comma-separated list, in lower case
audienceNames(teamsText) ==
    LET parts == Split(teamsText, ",")
    IN  { ToLower(TrimSpace(parts[k])) : k \in 1..Len(parts) }

\* the note is for the scope ft: every note is for the combined scope, a
\* note for all teams is for every team, another one for the teams it names
ForScope(note, ft) ==
    \/ ft = 0
    \/ ToLower(note.Teams) = <<"a","l","l"," ","t","e","a","m","s">>
    \/ ToLower(AllTeams[ft].Name) \in audienceNames(note.Teams)

----------------------------------------------------------------------------
(* Claims *)

\* C1: the comparator generateHTML sorts a scope with is a strict total
\* order: of any two distinct items of the scope exactly one is less than
\* the other.
C1_StrictTotalOrder ==
    Rendered =>
        \A i, j \in Positions :
            i # j => (lessAt(i, j) /\ ~lessAt(j, i)) \/ (lessAt(j, i) /\ ~lessAt(i, j))

\* C2: in the sequence generateHTML produces, the items are in ascending
\* date order, and every item whose date cannot be parsed comes after every
\* item whose date was parsed.
C2_DateOrderSentinelLast ==
    Rendered =>
        /\ \A i, j \in Positions : i < j => dateAt(i) <= dateAt(j)
        /\ \A i, j \in Positions :
               Unparseable(dateTextAt(i)) /\ ~Unparseable(dateTextAt(j)) => j < i

\* C3: in the sorted sequence every Note dated D comes before every Game
\* dated D.
C3_NotesBeforeGames ==
    Rendered =>
        \A i \in NotePositions, j \in GamePositions :
            dateAt(i) = dateAt(j) => i < j

C3_Witness ==
    /\ Rendered
    /\ \E i \in NotePositions, j \in GamePositions : dateAt(i) = dateAt(j)
    /\ \E j \in GamePositions, i \in NotePositions : dateAt(j) < dateAt(i)

\* C4: in the sorted sequence two Notes of the same date keep the order they
\* have in the note list.
C4_NotesKeepOrder ==
    Rendered =>
        \A i, j \in NotePositions :
            i < j /\ dateAt(i) = dateAt(j)
                => scheduleItems[i].idx < scheduleItems[j].idx

\* C5: two Games of the same date that both have a parsed time are in order
\* of time-of-day, then of team sort order, then of team name; two that are
\* both TBD are in order of team sort order, then of team name.
C5_GamesOfADay ==
    Rendered =>
        \A i, j \in GamePositions :
            i < j /\ dateAt(i) = dateAt(j) =>
                /\ TimedAt(i) /\ TimedAt(j) =>
                       \/ minutesAt(i) < minutesAt(j)
                       \/ minutesAt(i) = minutesAt(j) /\ TeamOrdered(i, j)
                /\ isTBD(gameAt(i).Time) /\ isTBD(gameAt(j).Time) =>
                       TeamOrdered(i, j)

C5_Witness ==
    /\ Rendered
    /\ \E i, j \in GamePositions :
           /\ i < j /\ dateAt(i) = dateAt(j)
           /\ TimedAt(i) /\ TimedAt(j)
           /\ minutesAt(i) = minutesAt(j)
           /\ orderAt(i) < orderAt(j)
           /\ scheduleItems[j].idx < scheduleItems[i].idx
    /\ \E i, j \in GamePositions :
           /\ i < j /\ dateAt(i) = dateAt(j)
           /\ TimedAt(i) /\ TimedAt(j)
           /\ minutesAt(i) < minutesAt(j)

\* C6: of two Games of the same date, one with a parsed time and one TBD,
\* the timed one comes first.
C6_TimedBeforeTBD ==
    Rendered =>
        \A i, j \in GamePositions :
            /\ dateAt(i) = dateAt(j)
            /\ TimedAt(i)
            /\ isTBD(gameAt(j).Time)
            => i < j

C6_Witness ==
    /\ Rendered
    /\ \E i, j \in GamePositions :
           /\ dateAt(i) = dateAt(j)
           /\ TimedAt(i)
           /\ isTBD(gameAt(j).Time)
           /\ scheduleItems[j].idx < scheduleItems[i].idx

\* C7: IsWeekStart is true of the first Game of the sorted sequence, also
\* when Notes come before it, and of every Game whose ISO year and week
\* differ from those of the nearest Game before it; it is false of every
\* other Game.
C7_WeekStart ==
    Rendered =>
        \A i \in GamePositions :
            LET before == { j \in GamePositions : j < i }
                prev == CHOOSE j \in before : \A k \in before : k <= j
            IN  templateItems[i].IsWeekStart
                    = (before = {} \/ ISOWeek(dateAt(i)) # ISOWeek(dateAt(prev)))

C9_WinIffOwnLarger ==
    /\ ScrapedScores /\ scrapedOwn # scrapedOther =>
           lastGame.Result = IF scrapedOwn > scrapedOther THEN W ELSE L
    /\ SheetScores /\ sheetOwn # sheetOther =>
           lastGame.Result = IF sheetOwn > sheetOther THEN W ELSE L

C9_Witness ==
    /\ SheetScores
    /\ sheetOwn = 9 /\ sheetOther = 10
    /\ lastGame.Result = L
    /\ \E k \in 1..(Len(allGames) - 1) :
           /\ allGames[k].HomeAway = "Home"
           /\ allGames[k].Score = <<"W"," ","1","0","-","9">>
           /\ allGames[k].Result = W

\* C10: a Game whose two scores are equal gets neither the win tag nor the
\* loss tag: in both adapters equal numeric scores leave the result tag
\* empty.
C10_NoTagOnTie ==
    /\ ScrapedScores /\ scrapedOwn = scrapedOther =>
           lastGame.Result = NoResult
    /\ SheetScores /\ sheetOwn = sheetOther =>
           lastGame.Result = NoResult

C12_NoteAudience ==
    /\ Rendered =>
           \A k \in 1..Len(allNotes) :
               ForScope(allNotes[k], filterTeam)
                   <=> \E i \in NotePositions : noteAt(i) = allNotes[k]
    /\ Exported =>
           \A k \in 1..Len(allNotes) :
               Year(parseDateForSorting(allNotes[k].Date)) # 2099 =>
                   (ForScope(allNotes[k], feed.filterTeam)
                       <=> \E e \in 1..Len(feed.events) :
                               /\ feed.events[e].kind = "note"
                               /\ feed.events[e].UID
                                      = noteUID(parseDateForSorting(
                                                    allNotes[k].Date),
                                                allNotes[k].Text))

\* C13: when all the sources of games together yield no Game, main ends
\* with the failure exit before it has made the output directory or written
\* any page or feed.
C13_NoGamesNoOutput ==
    /\ pc \in {"mkdir", "html", "write", "ical", "done"} => allGames # <<>>
    /\ pc = "exit" /\ allGames = <<>> =>
           dirs = {} /\ files = {} /\ calls = {}

C13_Witness ==
    /\ pc = "exit"
    /\ allGames = <<>>
    /\ Fetch("teams", 0, TRUE) \in sources
    /\ Fetch("page", 1, TRUE) \in sources
    /\ Fetch("games", 0, TRUE) \in sources

\* C14: of a text "H:MM AM" or "H:MM PM" formatTime leaves out the minutes
\* only when they are "00" ("4:00 PM" gives "4PM", "9:30 AM" gives "9:30AM"),
\* and formatTime of the result is the result; "TBD" and the empty text come
\* back unchanged.
C14_FormatTime ==
    pc = "formatted" =>
        /\ \A h \in 1..12, mm \in MinuteTexts, ampm \in {"A", "P"} :
               timeIn = ClockText(h, mm, ampm) =>
                   timeOut = IF mm = <<"0", "0">>
                             THEN Dec(h) \o <<ampm, "M">>
                             ELSE Dec(h) \o <<":">> \o mm \o <<ampm, "M">>
        /\ timeIn \in {TBD, <<>>} => timeOut = timeIn
        /\ formatTime(timeOut) = timeOut

C14_Witness ==
    /\ pc = "formatted"
    /\ timeIn = <<"4", ":", "0", "0", " ", "P", "M">>
    /\ timeOut = <<"4", "P", "M">>

\* C15: the feed of a scope holds exactly one event for each Game and each
\* Note of the scope whose date parses, and none for a Game or Note whose
\* date does not parse.
C15_OneEventPerDatedItem ==
    Exported =>
        /\ \A k \in 1..Len(exportedGames) :
               Cardinality(eventsOf("game", k))
                   = IF Unparseable(exportedGames[k].Date) THEN 0 ELSE 1
        /\ \A k \in 1..Len(exportedNotes) :
               Cardinality(eventsOf("note", k))
                   = IF Unparseable(exportedNotes[k].Date) THEN 0 ELSE 1

\* C16: the event of a Game is a timed event iff a time-of-day was read
\* from its time text, and then it ends one hour after its start; otherwise
\* it is an all-day event on the date of the game that ends the next day.
\* The event of a Note is an all-day event.
C16_TimedOrAllDay ==
    Exported =>
        /\ \A k \in 1..Len(exportedGames) : \A e \in eventsOf("game", k) :
               LET g == exportedGames[k]
                   day == parseDateForSorting(g.Date)
                   ev == feed.events[e]
               IN  IF HasTimeOfDay(g)
                   THEN /\ ~ev.AllDay
                        /\ ev.Start = day * MinutesPerDay
                                          + parseTimeToMinutes(g.Time)
                        /\ ev.End = ev.Start + 60
                   ELSE /\ ev.AllDay
                        /\ ev.Start = day
                        /\ ev.End = day + 1
        /\ \A k \in 1..Len(exportedNotes) : \A e \in eventsOf("note", k) :
               LET day == parseDateForSorting(exportedNotes[k].Date)
                   ev == feed.events[e]
               IN  ev.AllDay /\ ev.Start = day /\ ev.End = day + 1

C16_Witness ==
    /\ Exported
    /\ \E e \in 1..Len(feed.events) :
           /\ feed.events[e].kind = "game"
           /\ ~feed.events[e].AllDay
           /\ feed.events[e].End \div MinutesPerDay
                  > feed.events[e].Start \div MinutesPerDay
    /\ \E e \in 1..Len(feed.events) :
           /\ feed.events[e].kind = "game"
           /\ feed.events[e].AllDay
           /\ exportedGames[feed.events[e].idx].Time = <<"6",":","0","0">>
    /\ \E e \in 1..Len(feed.events) : feed.events[e].kind = "note"

\* C17: in one feed no two events have the same UID (the UID of a game is
\* made of its team, date and time, that of a note of its date and text).
C17_UniqueUID ==
    Exported =>
        \A d, e \in 1..Len(feed.events) :
            d # e => feed.events[d].UID # feed.events[e].UID

\* C18: for every scope, when main is through, a generateHTML that failed
\* for the scope was followed by a call of generateICalendar for it, and a
\* generateICalendar that failed for the scope came with a call of
\* generateHTML for it.
C18_RenderersIndependent ==
    pc \in {"done", "exit"} =>
        \A scope \in 0..Len(AllTeams) :
            /\ Call(scope, "html", FALSE) \in calls =>
                   \E ok \in BOOLEAN : Call(scope, "ics", ok) \in calls
            /\ Call(scope, "ics", FALSE) \in calls =>
                   \E ok \in BOOLEAN : Call(scope, "html", ok) \in calls

\* C19: main stops the run only when no source gave a Game: at the exit
\* allGames is empty and the games sheet, the last source of games, was
\* asked for; no failed fetch of a source ends the run before that.
C19_OnlyNoGamesStops ==
    pc = "exit" =>
        /\ allGames = <<>>
        /\ \E ok \in BOOLEAN : Fetch("games", 0, ok) \in sources

\* C20: for every scope and format the output file holds a complete render
\* or was left as it was: no file is left with a part of a render.
C20_NoPartialFile ==
    \A f \in files : f.content = "complete"

\* C21: when the Location of a Game has no abbreviation, the location cell
\* shows the full name of the Location, and no secondary text with it.
C21_FullNameWhenNoAbbrev ==
    pc = "shown" /\ gameLoc.Location # 0
        /\ AllLocations[gameLoc.Location].Abbrev = <<>> =>
            Contains(locationHTML, AllLocations[gameLoc.Location].Name)

\* C25: when the base name of the location text of a row is in no entry of
\* the location table, the Game has no Location, the location cell shows
\* that base text, and the text after the first " - " is its CourtGymInfo.
C25_UnknownBaseCarried ==
    LET name == TrimSpace(locIn.text)
        field == IF locIn.adapter = "scrape" THEN "Name" ELSE "Abbrev"
    IN  pc = "shown" /\ name # <<>> /\ name # TBD
            /\ (\A i \in 1..Len(AllLocations) :
                    AllLocations[i][field] # baseNameOf(name)) =>
                /\ gameLoc.Location = 0
                /\ gameLoc.CourtGymInfo = courtGymInfoOf(name)
                /\ Contains(locationHTML, baseNameOf(name))

C23_OwnSideByLabel ==
    lastRow.kind = "scrape" =>
        LET row == lastRow.row
            label == lastRow.htmlName
        IN  /\ lastEmitted => row.visitor = label \/ row.home = label
            /\ lastEmitted /\ row.visitor = label =>
                   lastGame.HomeAway = "Away" /\ lastGame.Opponent = row.home
            /\ lastEmitted /\ row.visitor # label =>
                   lastGame.HomeAway = "Home"
                       /\ lastGame.Opponent = row.visitor
            /\ lastEmitted /\ lastGame.Opponent = label =>
                   row.visitor = label /\ row.home = label

C23_Witness ==
    /\ lastRow.kind = "scrape"
    /\ lastEmitted
    /\ lastRow.row.visitor = lastRow.htmlName
    /\ lastRow.row.home = lastRow.htmlName
    /\ lastGame.HomeAway = "Away"
    /\ \E k \in 1..(Len(allGames) - 1) : allGames[k].HomeAway = "Home"

\* C24: a Game with a result tag, from either adapter, had two score texts
\* that both parse as integers: the two score cells of the scraped row, the
\* two parts of the sheet's score text.
C24_TagNeedsTwoIntegers ==
    /\ lastRow.kind = "scrape" /\ lastEmitted /\ lastGame.Result # NoResult =>
           /\ AtoiOk(TrimSpace(lastRow.row.visitorScore))
           /\ AtoiOk(TrimSpace(lastRow.row.homeScore))
    /\ lastRow.kind = "sheet" /\ lastEmitted /\ lastGame.Result # NoResult =>
           /\ Len(sheetScoreParts) = 2
           /\ AtoiOk(TrimSpace(sheetScoreParts[1]))
           /\ AtoiOk(TrimSpace(sheetScoreParts[2]))

\* C26: a time text H:MM with AM or PM in any letter case is a parsed time,
\* and every other time text is handled as TBD: in the feed the Game is a
\* timed event in the first case and an all-day event otherwise; in the
\* sorted sequence the Games of a date with such a time come before the
\* others, and the others are in order of team.
C26_ClockTextOrTBD ==
    /\ Exported =>
           \A k \in 1..Len(exportedGames) : \A e \in eventsOf("game", k) :
               feed.events[e].AllDay = ~ClockTextAnyCase(exportedGames[k].Time)
    /\ Rendered =>
           \A i, j \in GamePositions :
               i < j /\ dateAt(i) = dateAt(j) =>
                   /\ ClockTextAnyCase(gameAt(j).Time) =>
                          ClockTextAnyCase(gameAt(i).Time)
                   /\ ~ClockTextAnyCase(gameAt(i).Time) => TeamOrdered(i, j)

\* C27: the texts generateICalendar puts into the feed are escaped: what
\* escapeICalText returns holds no raw line break, comma, semicolon or
\* backslash, and the calendar name and the UIDs of a feed, with the team
\* name and the time text in them, hold none either.
C27_FeedTextEscaped ==
    /\ escapeICalTextEscapes
    /\ Exported =>
           /\ WellEscaped(feed.name)
           /\ \A e \in 1..Len(feed.events) : WellEscaped(feed.events[e].UID)

\* C28: every tabular adapter returns on every stream, also when a line is
\* no record and when Read keeps returning an error other than io.EOF.
C28_AdapterReturns == <>(pc \in {"returned", "failed"})

C30_TeamScopeIsOwnGames ==
    /\ (Rendered /\ filterTeam # 0) =>
           /\ \A i \in GamePositions : gameAt(i).Team = filterTeam
           /\ \A k \in 1..Len(allGames) :
                  allGames[k].Team = filterTeam =>
                      \E i \in GamePositions : gameAt(i) = allGames[k]
    /\ (Exported /\ feed.filterTeam # 0) =>
           { feed.events[e].UID : e \in { x \in 1..Len(feed.events) :
                                             feed.events[x].kind = "game" } }
               = { gameUID(AllTeams[feed.filterTeam].Name,
                           parseDateForSorting(allGames[k].Date),
                           allGames[k].Time) :
                       k \in { x \in 1..Len(allGames) :
                                   /\ allGames[x].Team = feed.filterTeam
                                   /\ Year(parseDateForSorting(
                                               allGames[x].Date)) # 2099 } }

====
